---- MODULE Spec2Model ----
(***************************************************************************)
(* SIWx (CAIP-122) client core of aimo-sdk: the message canonicalizer,     *)
(* the envelope codec, the two signer adapters and the authenticating      *)
(* fetch wrapper with its optional session cache.                          *)
(*                                                                         *)
(* A JavaScript string is modelled as a sequence of UTF-16 code units.     *)
(* A code unit is written as a one-character string when it is printable   *)
(* ASCII and as "U+XXXX" otherwise, so "U+000A" is the line feed.          *)
(***************************************************************************)
EXTENDS Integers, Sequences, FiniteSets, TLC

(***************************************************************************)
(* Code units                                                              *)
(***************************************************************************)

\* The 256 code units btoa accepts, in code order (index = code + 1).
Latin1 ==
  <<
    "U+0000", "U+0001", "U+0002", "U+0003", "U+0004", "U+0005", "U+0006", "U+0007",
    "U+0008", "U+0009", "U+000A", "U+000B", "U+000C", "U+000D", "U+000E", "U+000F",
    "U+0010", "U+0011", "U+0012", "U+0013", "U+0014", "U+0015", "U+0016", "U+0017",
    "U+0018", "U+0019", "U+001A", "U+001B", "U+001C", "U+001D", "U+001E", "U+001F",
    " ", "!", "\"", "#", "$", "%", "&", "'",
    "(", ")", "*", "+", ",", "-", ".", "/",
    "0", "1", "2", "3", "4", "5", "6", "7",
    "8", "9", ":", ";", "<", "=", ">", "?",
    "@", "A", "B", "C", "D", "E", "F", "G",
    "H", "I", "J", "K", "L", "M", "N", "O",
    "P", "Q", "R", "S", "T", "U", "V", "W",
    "X", "Y", "Z", "[", "\\", "]", "^", "_",
    "U+0060", "a", "b", "c", "d", "e", "f", "g",
    "h", "i", "j", "k", "l", "m", "n", "o",
    "p", "q", "r", "s", "t", "u", "v", "w",
    "x", "y", "z", "{", "|", "}", "~", "U+007F",
    "U+0080", "U+0081", "U+0082", "U+0083", "U+0084", "U+0085", "U+0086", "U+0087",
    "U+0088", "U+0089", "U+008A", "U+008B", "U+008C", "U+008D", "U+008E", "U+008F",
    "U+0090", "U+0091", "U+0092", "U+0093", "U+0094", "U+0095", "U+0096", "U+0097",
    "U+0098", "U+0099", "U+009A", "U+009B", "U+009C", "U+009D", "U+009E", "U+009F",
    "U+00A0", "U+00A1", "U+00A2", "U+00A3", "U+00A4", "U+00A5", "U+00A6", "U+00A7",
    "U+00A8", "U+00A9", "U+00AA", "U+00AB", "U+00AC", "U+00AD", "U+00AE", "U+00AF",
    "U+00B0", "U+00B1", "U+00B2", "U+00B3", "U+00B4", "U+00B5", "U+00B6", "U+00B7",
    "U+00B8", "U+00B9", "U+00BA", "U+00BB", "U+00BC", "U+00BD", "U+00BE", "U+00BF",
    "U+00C0", "U+00C1", "U+00C2", "U+00C3", "U+00C4", "U+00C5", "U+00C6", "U+00C7",
    "U+00C8", "U+00C9", "U+00CA", "U+00CB", "U+00CC", "U+00CD", "U+00CE", "U+00CF",
    "U+00D0", "U+00D1", "U+00D2", "U+00D3", "U+00D4", "U+00D5", "U+00D6", "U+00D7",
    "U+00D8", "U+00D9", "U+00DA", "U+00DB", "U+00DC", "U+00DD", "U+00DE", "U+00DF",
    "U+00E0", "U+00E1", "U+00E2", "U+00E3", "U+00E4", "U+00E5", "U+00E6", "U+00E7",
    "U+00E8", "U+00E9", "U+00EA", "U+00EB", "U+00EC", "U+00ED", "U+00EE", "U+00EF",
    "U+00F0", "U+00F1", "U+00F2", "U+00F3", "U+00F4", "U+00F5", "U+00F6", "U+00F7",
    "U+00F8", "U+00F9", "U+00FA", "U+00FB", "U+00FC", "U+00FD", "U+00FE", "U+00FF"
  >>

\* A code unit above U+00FF, as in a statement or a URL holding a euro sign.
EuroSign == "U+20AC"

LF == "U+000A"

CharSet == {Latin1[i] : i \in 1..256} \cup {EuroSign}

\* Code of every modelled code unit.
CodeTable ==
  [c \in CharSet |->
     IF c = EuroSign THEN 8364
     ELSE (CHOOSE i \in 1..256 : Latin1[i] = c) - 1]

\* String.prototype.charCodeAt for one code unit.
CodeOf(c) == CodeTable[c]

\* String.fromCharCode for a byte.
CharOf(n) == Latin1[n + 1]

LowerCaseLetters ==
  <<"a", "b", "c", "d", "e", "f", "g", "h", "i", "j", "k", "l", "m",
    "n", "o", "p", "q", "r", "s", "t", "u", "v", "w", "x", "y", "z">>

UpperCaseLetters ==
  <<"A", "B", "C", "D", "E", "F", "G", "H", "I", "J", "K", "L", "M",
    "N", "O", "P", "Q", "R", "S", "T", "U", "V", "W", "X", "Y", "Z">>

\* String.prototype.toUpperCase on one code unit of the modelled alphabet.
toUpperCase(c) ==
  IF \E i \in 1..26 : LowerCaseLetters[i] = c
  THEN UpperCaseLetters[CHOOSE i \in 1..26 : LowerCaseLetters[i] = c]
  ELSE c

\* String.prototype.startsWith
startsWith(s, prefix) ==
  /\ Len(s) >= Len(prefix)
  /\ SubSeq(s, 1, Len(prefix)) = prefix

\* Index of the first occurrence of code unit c in s, 0 when there is none.
indexOf(s, c) ==
  IF \E i \in 1..Len(s) : s[i] = c
  THEN CHOOSE i \in 1..Len(s) : s[i] = c /\ \A j \in 1..(i - 1) : s[j] # c
  ELSE 0

\* chainId.split(":")[0]
splitFirst(s, c) ==
  IF indexOf(s, c) = 0 THEN s ELSE SubSeq(s, 1, indexOf(s, c) - 1)

\* Concatenation of the strings pieces[lo..hi], halving the range.
RECURSIVE concatRange(_, _, _)
concatRange(pieces, lo, hi) ==
  IF lo > hi THEN <<>>
  ELSE IF lo = hi THEN pieces[lo]
  ELSE LET mid == (lo + hi) \div 2
       IN  concatRange(pieces, lo, mid) \o concatRange(pieces, mid + 1, hi)

concat(pieces) == concatRange(pieces, 1, Len(pieces))

\* Array.prototype.join
join(lines, sep) ==
  concat([i \in 1..Len(lines) |->
            IF i = 1 THEN lines[i] ELSE sep \o lines[i]])

(***************************************************************************)
(* JavaScript values of the optional payload fields                        *)
(***************************************************************************)

Undefined == [kind |-> "undefined"]
Null == [kind |-> "null"]
Str(s) == [kind |-> "string", v |-> s]
Arr(a) == [kind |-> "array", v |-> a]

\* ToBoolean: undefined, null and "" are falsy, an array always truthy.
Truthy(x) ==
  \/ x.kind = "string" /\ Len(x.v) > 0
  \/ x.kind = "array"

\* String(x), as a template literal renders a value.
ToStr(x) ==
  CASE x.kind = "string" -> x.v
    [] x.kind = "undefined" -> <<"u", "n", "d", "e", "f", "i", "n", "e", "d">>
    [] x.kind = "null" -> <<"n", "u", "l", "l">>
    [] OTHER -> join(x.v, <<",">>)

(***************************************************************************)
(* 4.1 Message canonicalizer                                               *)
(***************************************************************************)

Eip155Prefix == <<"e", "i", "p", "1", "5", "5", ":">>
SolanaPrefix == <<"s", "o", "l", "a", "n", "a", ":">>
EthereumName == <<"E", "t", "h", "e", "r", "e", "u", "m">>
SolanaName == <<"S", "o", "l", "a", "n", "a">>

\* getChainName matching the namespace without its colon.
getChainName_NamespacePrefix(chainId) ==
  IF startsWith(chainId, <<"e", "i", "p", "1", "5", "5">>) THEN EthereumName
  ELSE IF startsWith(chainId, <<"s", "o", "l", "a", "n", "a">>) THEN SolanaName
  ELSE LET namespace == splitFirst(chainId, ":")
       IN  IF Len(namespace) = 0 THEN <<>>
           ELSE <<toUpperCase(namespace[1])>> \o Tail(namespace)

getChainName(chainId) ==
  IF startsWith(chainId, Eip155Prefix) THEN EthereumName
  ELSE IF startsWith(chainId, SolanaPrefix) THEN SolanaName
  ELSE LET namespace == splitFirst(chainId, ":")
       IN  IF Len(namespace) = 0 THEN <<>>
           ELSE <<toUpperCase(namespace[1])>> \o Tail(namespace)

WantsYouToSignIn == <<" ", "w", "a", "n", "t", "s", " ", "y", "o", "u", " ", "t", "o", " ", "s", "i", "g", "n", " ", "i", "n", " ", "w", "i", "t", "h", " ", "y", "o", "u", "r", " ">>
AccountColon == <<" ", "a", "c", "c", "o", "u", "n", "t", ":">>
UriLabel == <<"U", "R", "I", ":", " ">>
VersionLabel == <<"V", "e", "r", "s", "i", "o", "n", ":", " ">>
ChainIdLabel == <<"C", "h", "a", "i", "n", " ", "I", "D", ":", " ">>
NonceLabel == <<"N", "o", "n", "c", "e", ":", " ">>
IssuedAtLabel == <<"I", "s", "s", "u", "e", "d", " ", "A", "t", ":", " ">>
ExpirationTimeLabel == <<"E", "x", "p", "i", "r", "a", "t", "i", "o", "n", " ", "T", "i", "m", "e", ":", " ">>
NotBeforeLabel == <<"N", "o", "t", " ", "B", "e", "f", "o", "r", "e", ":", " ">>
RequestIdLabel == <<"R", "e", "q", "u", "e", "s", "t", " ", "I", "D", ":", " ">>
ResourcesLabel == <<"R", "e", "s", "o", "u", "r", "c", "e", "s", ":">>
ResourceBullet == <<"-", " ">>

HeaderLines(payload) ==
  << payload.domain \o WantsYouToSignIn \o getChainName(payload.chainId)
       \o AccountColon,
     payload.address,
     <<>> >>

StatementLines(payload) ==
  IF Truthy(payload.statement)
  THEN <<ToStr(payload.statement), <<>>>>
  ELSE <<>>

RequiredTripletLines(payload) ==
  << UriLabel \o payload.uri,
     VersionLabel \o payload.version,
     ChainIdLabel \o payload.chainId >>

\* The nonce line pushed without the test of the field.
NonceLines_Unguarded(payload) ==
  <<NonceLabel \o ToStr(payload.nonce)>>

NonceLines(payload) ==
  IF Truthy(payload.nonce)
  THEN <<NonceLabel \o ToStr(payload.nonce)>>
  ELSE <<>>

IssuedAtLines(payload) ==
  IF Truthy(payload.issuedAt)
  THEN <<IssuedAtLabel \o ToStr(payload.issuedAt)>>
  ELSE <<>>

\* The expiration line followed by a line for the signature field.
ExpirationTimeLines_ThenSignature(payload) ==
  <<ExpirationTimeLabel \o payload.expirationTime>>
    \o (IF Truthy(payload.signature)
        THEN <<<<"S", "i", "g", "n", "a", "t", "u", "r", "e", ":", " ">> \o ToStr(payload.signature)>>
        ELSE <<>>)

ExpirationTimeLines(payload) ==
  <<ExpirationTimeLabel \o payload.expirationTime>>

NotBeforeLines(payload) ==
  IF Truthy(payload.notBefore)
  THEN <<NotBeforeLabel \o ToStr(payload.notBefore)>>
  ELSE <<>>

RequestIdLines(payload) ==
  IF Truthy(payload.requestId)
  THEN <<RequestIdLabel \o ToStr(payload.requestId)>>
  ELSE <<>>

ResourcesLines(payload) ==
  IF Truthy(payload.resources) /\ Len(payload.resources.v) > 0
  THEN <<ResourcesLabel>>
         \o [i \in 1..Len(payload.resources.v) |->
               ResourceBullet \o payload.resources.v[i]]
  ELSE <<>>

\* The lines array with the nonce pushed after the issued-at time.
MessageLines_IssuedAtFirst(payload) ==
  HeaderLines(payload)
    \o StatementLines(payload)
    \o RequiredTripletLines(payload)
    \o IssuedAtLines(payload)
    \o NonceLines(payload)
    \o ExpirationTimeLines(payload)
    \o NotBeforeLines(payload)
    \o RequestIdLines(payload)
    \o ResourcesLines(payload)

\* The lines array, in the order the pushes happen.
MessageLines(payload) ==
  HeaderLines(payload)
    \o StatementLines(payload)
    \o RequiredTripletLines(payload)
    \o NonceLines(payload)
    \o IssuedAtLines(payload)
    \o ExpirationTimeLines(payload)
    \o NotBeforeLines(payload)
    \o RequestIdLines(payload)
    \o ResourcesLines(payload)

createSIWxMessage(payload) == join(MessageLines(payload), <<LF>>)

(***************************************************************************)
(* 4.2 Envelope codec                                                      *)
(***************************************************************************)

HexDigits ==
  <<"0", "1", "2", "3", "4", "5", "6", "7",
    "8", "9", "a", "b", "c", "d", "e", "f">>

\* JSON.stringify's QuoteJSONString for one code unit.
QuoteJSONChar(c) ==
  CASE c = "\"" -> <<"\\", "\"">>
    [] c = "\\" -> <<"\\", "\\">>
    [] c = "U+0008" -> <<"\\", "b">>
    [] c = "U+0009" -> <<"\\", "t">>
    [] c = "U+000A" -> <<"\\", "n">>
    [] c = "U+000C" -> <<"\\", "f">>
    [] c = "U+000D" -> <<"\\", "r">>
    [] OTHER ->
         IF CodeOf(c) < 32
         THEN <<"\\", "u", "0", "0",
                HexDigits[(CodeOf(c) \div 16) + 1],
                HexDigits[(CodeOf(c) % 16) + 1]>>
         ELSE <<c>>

QuoteJSONBody(s) == concat([i \in 1..Len(s) |-> QuoteJSONChar(s[i])])

QuoteJSONString(s) == <<"\"">> \o QuoteJSONBody(s) \o <<"\"">>

\* JSON.stringify({ message, signature }) for two string values.
JSONStringifyEnvelope(message, signature) ==
  <<"{", "\"", "m", "e", "s", "s", "a", "g", "e", "\"", ":">> \o QuoteJSONString(message)
    \o <<",", "\"", "s", "i", "g", "n", "a", "t", "u", "r", "e", "\"", ":">> \o QuoteJSONString(signature) \o <<"}">>

Base64Alphabet ==
  <<
    "A", "B", "C", "D", "E", "F", "G", "H", "I", "J", "K", "L", "M", "N", "O", "P",
    "Q", "R", "S", "T", "U", "V", "W", "X", "Y", "Z", "a", "b", "c", "d", "e", "f",
    "g", "h", "i", "j", "k", "l", "m", "n", "o", "p", "q", "r", "s", "t", "u", "v",
    "w", "x", "y", "z", "0", "1", "2", "3", "4", "5", "6", "7", "8", "9", "+", "/"
  >>

\* Base64 characters of a byte sequence, padded with "=".
Base64Encode(bytes) ==
  LET n == Len(bytes)
      at(k) == IF k <= n THEN bytes[k] ELSE 0
      triple(g) == at(3 * g + 1) * 65536 + at(3 * g + 2) * 256 + at(3 * g + 3)
      sextet(g, j) ==
        CASE j = 0 -> triple(g) \div 262144
          [] j = 1 -> (triple(g) \div 4096) % 64
          [] j = 2 -> (triple(g) \div 64) % 64
          [] OTHER -> triple(g) % 64
  IN  [k \in 1..(4 * ((n + 2) \div 3)) |->
        LET g == (k - 1) \div 4
            j == (k - 1) % 4
        IN  IF (j = 2 /\ 3 * g + 2 > n) \/ (j = 3 /\ 3 * g + 3 > n)
            THEN "="
            ELSE Base64Alphabet[sextet(g, j) + 1]]

\* btoa: throws InvalidCharacterError on a code unit above U+00FF.
btoa(s) ==
  IF \E i \in 1..Len(s) : CodeOf(s[i]) > 255
  THEN [ok |-> FALSE, error |-> "InvalidCharacterError"]
  ELSE [ok |-> TRUE, v |-> Base64Encode([i \in 1..Len(s) |-> CodeOf(s[i])])]

encodeSIWxHeader(message, signature) ==
  btoa(JSONStringifyEnvelope(message, signature))

\* The createHeader closure captures the message computed once.
prepareSIWxForSigning(payload) ==
  LET message == createSIWxMessage(payload)
  IN  [message |-> message]

createHeader(prepared, signature) ==
  encodeSIWxHeader(prepared.message, signature)

(***************************************************************************)
(* Decoding, as the receiving side does: JSON.parse(atob(header))          *)
(***************************************************************************)

IsBase64Char(c) == \E i \in 1..64 : Base64Alphabet[i] = c

Base64Index(c) == (CHOOSE i \in 1..64 : Base64Alphabet[i] = c) - 1

IsAsciiWhitespace(c) ==
  c \in {"U+0009", "U+000A", "U+000C", "U+000D", " "}

\* atob (forgiving-base64 decode); the result is a binary string.
atob(t) ==
  LET noWs == SelectSeq(t, LAMBDA c : ~IsAsciiWhitespace(c))
      n0 == Len(noWs)
      strip ==
        IF n0 % 4 = 0 /\ n0 >= 2 /\ noWs[n0] = "=" /\ noWs[n0 - 1] = "="
        THEN SubSeq(noWs, 1, n0 - 2)
        ELSE IF n0 % 4 = 0 /\ n0 >= 1 /\ noWs[n0] = "="
        THEN SubSeq(noWs, 1, n0 - 1)
        ELSE noWs
      m == Len(strip)
  IN  IF m % 4 = 1 \/ \E i \in 1..m : ~IsBase64Char(strip[i])
      THEN [ok |-> FALSE, error |-> "InvalidCharacterError"]
      ELSE LET d == [i \in 1..m |-> Base64Index(strip[i])]
               byte(k) ==
                 LET b == 8 * (k - 1)
                     i == b \div 6
                     r == b % 6
                     v == d[i + 1] * 64 + d[i + 2]
                 IN  CASE r = 0 -> (v \div 16) % 256
                       [] r = 2 -> (v \div 4) % 256
                       [] OTHER -> v % 256
           IN  [ok |-> TRUE,
                v |-> [k \in 1..((m * 6) \div 8) |-> CharOf(byte(k))]]

\* Number of consecutive backslashes that end at t[i], counted down to from.
BackslashRun(t, from, i) ==
  IF i < from \/ t[i] # "\\" THEN 0
  ELSE i - (CHOOSE j \in (from - 1)..i :
              /\ \A k \in (j + 1)..i : t[k] = "\\"
              /\ (j < from \/ t[j] # "\\"))

\* A backslash that starts an escape sequence of the literal opened at from.
IsEscapeStart(t, from, i) ==
  t[i] = "\\" /\ BackslashRun(t, from, i) % 2 = 1

IsHexDigit(c) == \E h \in 1..16 : HexDigits[h] = c

HexValue(c) == (CHOOSE h \in 1..16 : HexDigits[h] = c) - 1

\* The code unit(s) position i of a literal's body contributes once parsed.
UnquoteJSONAt(t, from, i) ==
  IF IsEscapeStart(t, from, i)
  THEN CASE t[i + 1] = "\"" -> <<"\"">>
         [] t[i + 1] = "\\" -> <<"\\">>
         [] t[i + 1] = "/" -> <<"/">>
         [] t[i + 1] = "b" -> <<"U+0008">>
         [] t[i + 1] = "t" -> <<"U+0009">>
         [] t[i + 1] = "n" -> <<"U+000A">>
         [] t[i + 1] = "f" -> <<"U+000C">>
         [] t[i + 1] = "r" -> <<"U+000D">>
         [] OTHER -> <<CharOf(16 * HexValue(t[i + 4]) + HexValue(t[i + 5]))>>
  ELSE IF \/ (i > from /\ IsEscapeStart(t, from, i - 1))
          \/ \E j \in (IF i - 5 > from THEN i - 5 ELSE from)..(i - 2) :
               IsEscapeStart(t, from, j) /\ t[j + 1] = "u"
  THEN <<>>
  ELSE <<t[i]>>

\* An escape sequence JSON.parse accepts (\u00XX among the \u forms).
ValidEscapeAt(t, i, close) ==
  /\ i + 1 < close
  /\ \/ t[i + 1] \in {"\"", "\\", "/", "b", "t", "n", "f", "r"}
     \/ /\ t[i + 1] = "u"
        /\ i + 5 < close
        /\ t[i + 2] = "0" /\ t[i + 3] = "0"
        /\ IsHexDigit(t[i + 4]) /\ IsHexDigit(t[i + 5])

\* One JSON string literal whose body starts at t[from]; next is the index
\* after its closing quote.
ScanJSONString(t, from) ==
  LET closers == {i \in from..Len(t) :
                    t[i] = "\"" /\ BackslashRun(t, from, i - 1) % 2 = 0}
  IN  IF closers = {} THEN [ok |-> FALSE]
      ELSE LET close == CHOOSE i \in closers : \A j \in closers : i <= j
           IN  IF \E i \in from..(close - 1) :
                    \/ CodeOf(t[i]) < 32
                    \/ IsEscapeStart(t, from, i) /\ ~ValidEscapeAt(t, i, close)
               THEN [ok |-> FALSE]
               ELSE [ok |-> TRUE,
                     v |-> concat([k \in 1..(close - from) |->
                                     UnquoteJSONAt(t, from, from + k - 1)]),
                     next |-> close + 1]

MessageKey == <<"{", "\"", "m", "e", "s", "s", "a", "g", "e", "\"", ":", "\"">>
SignatureKey == <<",", "\"", "s", "i", "g", "n", "a", "t", "u", "r", "e", "\"", ":", "\"">>

\* JSON.parse of the text JSON.stringify emits for { message, signature };
\* any other text is a SyntaxError or an object of another shape.
JSONParseEnvelope(t) ==
  IF ~startsWith(t, MessageKey) THEN [ok |-> FALSE]
  ELSE LET m == ScanJSONString(t, Len(MessageKey) + 1)
       IN  IF ~m.ok THEN [ok |-> FALSE]
           ELSE IF ~startsWith(SubSeq(t, m.next, Len(t)), SignatureKey)
           THEN [ok |-> FALSE]
           ELSE LET s == ScanJSONString(t, m.next + Len(SignatureKey))
                IN  IF ~s.ok THEN [ok |-> FALSE]
                    ELSE IF s.next = Len(t) /\ t[s.next] = "}"
                    THEN [ok |-> TRUE, message |-> m.v, signature |-> s.v]
                    ELSE [ok |-> FALSE]

decodeSIWxHeader(header) ==
  LET a == atob(header)
  IN  IF a.ok THEN JSONParseEnvelope(a.v) ELSE [ok |-> FALSE]

(***************************************************************************)
(* Dates: Date.now() is a number of milliseconds since the epoch; the      *)
(* model covers the first day, 1970-01-01T00:00:00.000Z onwards.           *)
(***************************************************************************)

Digits == <<"0", "1", "2", "3", "4", "5", "6", "7", "8", "9">>

IsDigit(c) == \E d \in 1..10 : Digits[d] = c

DigitValue(c) == (CHOOSE d \in 1..10 : Digits[d] = c) - 1

TwoDigits(n) == <<Digits[((n \div 10) % 10) + 1], Digits[(n % 10) + 1]>>

ThreeDigits(n) == <<Digits[((n \div 100) % 10) + 1]>> \o TwoDigits(n % 100)

EpochDay == <<"1", "9", "7", "0", "-", "0", "1", "-", "0", "1", "T">>

\* Date.prototype.toISOString for a time of the first day.
toISOString(ms) ==
  EpochDay
    \o TwoDigits(ms \div 3600000) \o <<":">>
    \o TwoDigits((ms \div 60000) % 60) \o <<":">>
    \o TwoDigits((ms \div 1000) % 60) \o <<".">>
    \o ThreeDigits(ms % 1000) \o <<"Z">>

\* The time value of an invalid Date.
NaN == -1

\* new Date(string).getTime() for the format toISOString emits; NaN for a
\* string that is not a date.
DateParse(str) ==
  IF /\ Len(str) = 24
     /\ SubSeq(str, 1, 11) = EpochDay
     /\ \A i \in {12, 13, 15, 16, 18, 19, 21, 22, 23} : IsDigit(str[i])
     /\ str[14] = ":" /\ str[17] = ":" /\ str[20] = "." /\ str[24] = "Z"
     /\ 10 * DigitValue(str[12]) + DigitValue(str[13]) < 24
     /\ DigitValue(str[15]) < 6
     /\ DigitValue(str[18]) < 6
  THEN (10 * DigitValue(str[12]) + DigitValue(str[13])) * 3600000
         + (10 * DigitValue(str[15]) + DigitValue(str[16])) * 60000
         + (10 * DigitValue(str[18]) + DigitValue(str[19])) * 1000
         + 100 * DigitValue(str[21]) + 10 * DigitValue(str[22])
         + DigitValue(str[23])
  ELSE NaN

\* a > b on two Dates: false as soon as one of them is invalid.
DateGreater(a, b) == a # NaN /\ b # NaN /\ a > b

\* 60 * 60 * 1000
ValidityMs == 3600000

\* The expirationTime half an hour from now.
generateExpirationTime_HalfHour(nowMs) == toISOString(nowMs + 60 * 30 * 1000)

generateExpirationTime(nowMs) == toISOString(nowMs + ValidityMs)

(***************************************************************************)
(* URLs                                                                    *)
(***************************************************************************)

\* First index at or after from where s holds a code unit of cs; Len(s) + 1
\* when there is none.
FirstOf(s, from, cs) ==
  IF \E i \in from..Len(s) : s[i] \in cs
  THEN CHOOSE i \in from..Len(s) :
         s[i] \in cs /\ \A j \in from..(i - 1) : s[j] \notin cs
  ELSE Len(s) + 1

HttpsScheme == <<"h", "t", "t", "p", "s", ":", "/", "/">>

\* String.prototype.toLowerCase on one code unit of the modelled alphabet,
\* as the URL parser applies it to the scheme and the host.
toLowerCase(c) ==
  IF \E i \in 1..26 : UpperCaseLetters[i] = c
  THEN LowerCaseLetters[CHOOSE i \in 1..26 : UpperCaseLetters[i] = c]
  ELSE c

LowerCased(s) == [i \in 1..Len(s) |-> toLowerCase(s[i])]

\* Index of the last occurrence of code unit c in s, 0 when there is none.
lastIndexOf(s, c) ==
  IF \E i \in 1..Len(s) : s[i] = c
  THEN CHOOSE i \in 1..Len(s) :
         s[i] = c /\ \A j \in (i + 1)..Len(s) : s[j] # c
  ELSE 0

\* The port the URL parser drops for the scheme.
DefaultPort(scheme) == IF scheme = <<"h", "t", "t", "p", "s">> THEN <<"4", "4", "3">> ELSE <<"8", "0">>

\* new URL(str) for a string without base: a TypeError unless str is an
\* absolute http or https URL; else the components of the URL record, the
\* scheme and the host in lower case, the default port dropped, the empty
\* path replaced by "/". The strings modelled hold no dot segments and no
\* code units the parser would percent-encode.
ParseUrl(str) ==
  LET colon == indexOf(str, ":")
      scheme == LowerCased(SubSeq(str, 1, colon - 1))
      authStart == colon + 3
      authEnd == FirstOf(str, authStart, {"/", "?", "#"})
      authority == SubSeq(str, authStart, authEnd - 1)
      at == lastIndexOf(authority, "@")
      userinfo == SubSeq(authority, 1, at)
      hostport == SubSeq(authority, at + 1, Len(authority))
      portColon == indexOf(hostport, ":")
      hostname == LowerCased(IF portColon = 0 THEN hostport
                             ELSE SubSeq(hostport, 1, portColon - 1))
      portText == IF portColon = 0 THEN <<>>
                  ELSE SubSeq(hostport, portColon + 1, Len(hostport))
      port == IF portText = DefaultPort(scheme) THEN <<>> ELSE portText
      host == hostname \o (IF port = <<>> THEN <<>> ELSE <<":">> \o port)
      pathEnd == FirstOf(str, authEnd, {"?", "#"})
      searchEnd == FirstOf(str, pathEnd, {"#"})
      path == SubSeq(str, authEnd, pathEnd - 1)
      query == SubSeq(str, pathEnd, searchEnd - 1)
      fragment == SubSeq(str, searchEnd, Len(str))
      pathname == IF path = <<>> THEN <<"/">> ELSE path
      search == IF query = <<"?">> THEN <<>> ELSE query
      hash == IF fragment = <<"#">> THEN <<>> ELSE fragment
  IN  IF \/ colon = 0
         \/ scheme \notin {<<"h", "t", "t", "p">>, <<"h", "t", "t", "p", "s">>}
         \/ Len(str) < colon + 2
         \/ SubSeq(str, colon + 1, colon + 2) # <<"/", "/">>
         \/ hostname = <<>>
      THEN [ok |-> FALSE, error |-> "TypeError"]
      ELSE [ok |-> TRUE,
            protocol |-> scheme \o <<":">>,
            userinfo |-> userinfo,
            hostname |-> hostname,
            host |-> host,
            pathname |-> pathname,
            search |-> search,
            hash |-> hash,
            href |-> scheme \o <<":", "/", "/">> \o userinfo \o host
                       \o pathname \o query \o fragment]

\* typeof input === "string" ? input : input instanceof URL ? input.href
\*                                                           : input.url
InputUrlString(input) ==
  CASE input.kind = "string" -> input.text
    [] input.kind = "URL" -> input.href
    [] OTHER -> input.url

\* The domain taken from url.hostname, without the port.
extractDomain_Hostname(input) == ParseUrl(InputUrlString(input)).hostname

extractDomain(input) == ParseUrl(InputUrlString(input)).host

\* options?.siwxDomain ?? extractDomain(input)
ResolveDomain(input, options) ==
  IF options.siwxDomain.kind \in {"undefined", "null"}
  THEN extractDomain(input)
  ELSE options.siwxDomain.v

\* The uri with the host of the request URL kept.
ResolveUri_Verbatim(input, options) == InputUrlString(input)

ResolveUri(input, options) ==
  IF Truthy(options.siwxDomain)
  THEN LET originalUrl == ParseUrl(InputUrlString(input))
       IN  HttpsScheme \o options.siwxDomain.v
             \o originalUrl.pathname \o originalUrl.search
  ELSE InputUrlString(input)

\* One of the two new URL(...) of the signing branch throws: extractDomain
\* runs when siwxDomain is undefined or null, the rewrite when it is truthy.
PayloadThrows(input, options) ==
  /\ \/ options.siwxDomain.kind \in {"undefined", "null"}
     \/ Truthy(options.siwxDomain)
  /\ ~ParseUrl(InputUrlString(input)).ok

\* The payload object literal of the signing path.
FreshPayload(input, options, address, network, nowMs) ==
  [domain |-> ResolveDomain(input, options),
   address |-> address,
   statement |-> Undefined,
   uri |-> ResolveUri(input, options),
   version |-> <<"1">>,
   chainId |-> network,
   nonce |-> Undefined,
   issuedAt |-> Undefined,
   expirationTime |-> generateExpirationTime(nowMs),
   notBefore |-> Undefined,
   requestId |-> Undefined,
   resources |-> Undefined,
   signature |-> Undefined]

\* The full payload built without the expirationTime of the signed payload.
FullPayload_ExpiryDropped(payload, signature) ==
  [payload EXCEPT !.signature = Str(signature), !.expirationTime = <<>>]

\* { ...payload, signature }
FullPayload_WithSignature(payload, signature) ==
  [payload EXCEPT !.signature = Str(signature)]

\* The expiry test with >= in place of >.
CacheHit_AtExpiry(cachedPayload, nowMs) ==
  /\ cachedPayload.kind = "payload"
  /\ DateParse(cachedPayload.v.expirationTime) # NaN
  /\ DateParse(cachedPayload.v.expirationTime) >= nowMs

\* cachedPayload && new Date(cachedPayload.expirationTime) > new Date()
CacheHit(cachedPayload, nowMs) ==
  /\ cachedPayload.kind = "payload"
  /\ DateGreater(DateParse(cachedPayload.v.expirationTime), nowMs)

(***************************************************************************)
(* Request headers                                                         *)
(***************************************************************************)

\* init?.headers is undefined, a plain object, an array of pairs or a
\* Headers instance; list holds its (name, value) pairs in the order in
\* which new Headers(...) appends them.
PlainObject(list) == [kind |-> "object", list |-> list]

ArrayOfPairs(list) == [kind |-> "array", list |-> list]

HeadersInstance(list) == [kind |-> "Headers", list |-> list]

SiwxHeaderName == <<"S", "I", "G", "N", "-", "I", "N", "-", "W", "I", "T", "H", "-", "X">>

SetCookieName == <<"s", "e", "t", "-", "c", "o", "o", "k", "i", "e">>

HttpWhitespace == {"U+0009", "U+000A", "U+000D", " "}

\* The value as Headers.append stores it: leading and trailing HTTP
\* whitespace removed.
NormalizeValue(v) ==
  IF \A i \in 1..Len(v) : v[i] \in HttpWhitespace THEN <<>>
  ELSE LET first == CHOOSE i \in 1..Len(v) :
                      /\ v[i] \notin HttpWhitespace
                      /\ \A j \in 1..(i - 1) : v[j] \in HttpWhitespace
           last == CHOOSE i \in 1..Len(v) :
                     /\ v[i] \notin HttpWhitespace
                     /\ \A j \in (i + 1)..Len(v) : v[j] \in HttpWhitespace
       IN  SubSeq(v, first, last)

\* new Headers(init?.headers): the header list, empty for undefined.
NewHeaders(headersInit) ==
  IF headersInit = Undefined THEN <<>>
  ELSE [i \in 1..Len(headersInit.list) |->
          <<headersInit.list[i][1], NormalizeValue(headersInit.list[i][2])>>]

\* The values of the headers of list named name, whatever the case, in the
\* order of the list.
ValuesOf(list, name) ==
  LET idx == {i \in 1..Len(list) : LowerCased(list[i][1]) = name}
      nth(k) == CHOOSE i \in idx : Cardinality({j \in idx : j < i}) = k - 1
  IN  [k \in 1..Cardinality(idx) |-> list[nth(k)][2]]

\* existingHeaders.forEach((value, key) => { headersObject[key] = value })
\* visits each name once, in lower case, with its values joined by ", ",
\* except set-cookie, which it visits once per value, so that the last
\* value stays.
HeadersObject(list) ==
  LET names == {LowerCased(list[i][1]) : i \in 1..Len(list)}
  IN  [key \in names |->
         IF key = SetCookieName
         THEN ValuesOf(list, key)[Len(ValuesOf(list, key))]
         ELSE join(ValuesOf(list, key), <<",", " ">>)]

\* headersObject once headersObject["SIGN-IN-WITH-X"] = siwxHeader is done.
MergeHeaders(headersInit, siwxHeader) ==
  (SiwxHeaderName :> siwxHeader) @@ HeadersObject(NewHeaders(headersInit))

\* The headers of the request that fetch(input, init) makes: those of init
\* when init has headers, else those a Request input carries.
FetchHeaders(input, init) ==
  IF init.headers # Undefined THEN init.headers
  ELSE IF input.kind = "Request" THEN HeadersObject(input.headers)
  ELSE <<>>

(***************************************************************************)
(* 4.3 Signer adapters                                                     *)
(***************************************************************************)

EVM_MAINNET_CHAIN_ID == <<"e", "i", "p", "1", "5", "5", ":", "1">>
SOLANA_MAINNET_CHAIN_ID == <<"s", "o", "l", "a", "n", "a", ":", "5", "e", "y", "k", "t", "4", "U", "s", "F", "v", "8", "P", "8", "N", "J", "d", "T", "R", "E", "p", "Y", "1", "v", "z", "q", "K", "q", "Z", "K", "v", "d", "p">>

\* The chainId the adapter was constructed with (the default one).
SignerChainId(kind) ==
  IF kind = "evm" THEN EVM_MAINNET_CHAIN_ID ELSE SOLANA_MAINNET_CHAIN_ID

\* { ...payload, chainId: payload.chainId || this.chainId }
PayloadWithChain(payload, kind) ==
  [payload EXCEPT !.chainId =
     IF Len(payload.chainId) > 0 THEN payload.chainId ELSE SignerChainId(kind)]

\* The wallet handed the message of a payload without the call's uri.
SignerMessage_WithoutUri(payload, kind) ==
  createSIWxMessage(PayloadWithChain([payload EXCEPT !.uri = <<>>], kind))

\* The message signPayload hands to the underlying wallet.
SignerMessage(payload, kind) ==
  IF kind = "evm"
  THEN prepareSIWxForSigning(PayloadWithChain(payload, kind)).message
  ELSE createSIWxMessage(PayloadWithChain(payload, kind))

Base58Alphabet ==
  <<
    "1", "2", "3", "4", "5", "6", "7", "8", "9", "A", "B", "C", "D", "E", "F", "G",
    "H", "J", "K", "L", "M", "N", "P", "Q", "R", "S", "T", "U", "V", "W", "X", "Y",
    "Z", "a", "b", "c", "d", "e", "f", "g", "h", "i", "j", "k", "m", "n", "o", "p",
    "q", "r", "s", "t", "u", "v", "w", "x", "y", "z"
  >>

\* bs58.encode: one "1" per leading zero byte, then the base-58 digits of
\* the big-endian number.
base58Encode(bytes) ==
  LET n == Len(bytes)
      zeros == IF \A i \in 1..n : bytes[i] = 0 THEN n
               ELSE (CHOOSE i \in 1..n :
                       bytes[i] # 0 /\ \A j \in 1..(i - 1) : bytes[j] = 0) - 1
      RECURSIVE value(_)
      value(k) == IF k = 0 THEN 0 ELSE 256 * value(k - 1) + bytes[k]
      RECURSIVE digits(_)
      digits(v) ==
        IF v = 0 THEN <<>>
        ELSE Append(digits(v \div 58), Base58Alphabet[(v % 58) + 1])
  IN  [i \in 1..zeros |-> "1"] \o digits(value(n))

\* What signPayload resolves to once the wallet has signed: the EVM
\* adapter returns the wallet's hex signature, the SVM adapter returns
\* btoa(JSON.stringify({ message, signature })) with the base58 signature.
SignPayloadResult(kind, message, walletSignature) ==
  IF kind = "evm"
  THEN [ok |-> TRUE, v |-> walletSignature]
  ELSE btoa(JSONStringifyEnvelope(message, base58Encode(walletSignature)))

\* The chain-native signature string of a wallet signature.
NativeSignature(kind, walletSignature) ==
  IF kind = "evm" THEN walletSignature ELSE base58Encode(walletSignature)

(***************************************************************************)
(* 4.5 Typed API client: AimoClient                                        *)
(*                                                                         *)
(* JSON values are null, booleans, non-negative integers, strings and      *)
(* objects; JSON texts are written without whitespace, as JSON.stringify   *)
(* writes them.                                                            *)
(***************************************************************************)

Num(n) == [kind |-> "number", v |-> n]
Bool(b) == [kind |-> "boolean", v |-> b]

\* An object: its own properties as (key, value) pairs in insertion order.
Obj(members) == [kind |-> "object", members |-> members]

\* Number.prototype.toString for a non-negative integer.
RECURSIVE NumberToString(_)
NumberToString(n) ==
  IF n < 10 THEN <<Digits[n + 1]>>
  ELSE NumberToString(n \div 10) \o <<Digits[(n % 10) + 1]>>

\* ToBoolean
ToBoolean(x) ==
  CASE x.kind = "string" -> Len(x.v) > 0
    [] x.kind = "number" -> x.v # 0
    [] x.kind = "boolean" -> x.v
    [] x.kind = "object" -> TRUE
    [] OTHER -> FALSE

\* The string a template literal renders a value as.
TemplateString(x) ==
  CASE x.kind = "string" -> x.v
    [] x.kind = "number" -> NumberToString(x.v)
    [] x.kind = "boolean" -> IF x.v THEN <<"t", "r", "u", "e">> ELSE <<"f", "a", "l", "s", "e">>
    [] x.kind = "object" -> <<"[", "o", "b", "j", "e", "c", "t", " ", "O", "b", "j", "e", "c", "t", "]">>
    [] x.kind = "null" -> <<"n", "u", "l", "l">>
    [] OTHER -> <<"u", "n", "d", "e", "f", "i", "n", "e", "d">>

\* x[key] for a value that is neither null nor undefined.
GetMember(x, key) ==
  IF x.kind = "object" /\ \E i \in 1..Len(x.members) : x.members[i][1] = key
  THEN x.members[CHOOSE i \in 1..Len(x.members) : x.members[i][1] = key][2]
  ELSE Undefined

\* obj[key] = value while an object literal is parsed: a key that comes
\* again keeps its place and takes the later value.
SetMember(members, key, value) ==
  IF \E i \in 1..Len(members) : members[i][1] = key
  THEN [i \in 1..Len(members) |->
          IF members[i][1] = key THEN <<key, value>> ELSE members[i]]
  ELSE Append(members, <<key, value>>)

RECURSIVE JSONStringify(_)
JSONStringify(x) ==
  CASE x.kind = "string" -> QuoteJSONString(x.v)
    [] x.kind = "number" -> NumberToString(x.v)
    [] x.kind = "boolean" -> IF x.v THEN <<"t", "r", "u", "e">> ELSE <<"f", "a", "l", "s", "e">>
    [] x.kind = "null" -> <<"n", "u", "l", "l">>
    [] OTHER ->
         <<"{">>
           \o join([i \in 1..Len(x.members) |->
                      QuoteJSONString(x.members[i][1]) \o <<":">>
                        \o JSONStringify(x.members[i][2])],
                   <<",">>)
           \o <<"}">>

RECURSIVE DigitsValue(_)
DigitsValue(s) ==
  IF s = <<>> THEN 0
  ELSE 10 * DigitsValue(SubSeq(s, 1, Len(s) - 1)) + DigitValue(s[Len(s)])

\* The index after the run of digits that starts at t[from].
DigitsEnd(t, from) ==
  CHOOSE e \in (from + 1)..(Len(t) + 1) :
    /\ \A i \in from..(e - 1) : IsDigit(t[i])
    /\ (e = Len(t) + 1 \/ ~IsDigit(t[e]))

\* One JSON value that starts at t[from]; next is the index after it.
RECURSIVE ParseJSONValue(_, _)
RECURSIVE ParseJSONMembers(_, _, _)
ParseJSONValue(t, from) ==
  LET rest == SubSeq(t, from, Len(t))
  IN  IF from > Len(t) THEN [ok |-> FALSE]
      ELSE IF t[from] = "\""
      THEN LET s == ScanJSONString(t, from + 1)
           IN  IF s.ok THEN [ok |-> TRUE, v |-> Str(s.v), next |-> s.next]
               ELSE [ok |-> FALSE]
      ELSE IF startsWith(rest, <<"n", "u", "l", "l">>)
      THEN [ok |-> TRUE, v |-> Null, next |-> from + 4]
      ELSE IF startsWith(rest, <<"t", "r", "u", "e">>)
      THEN [ok |-> TRUE, v |-> Bool(TRUE), next |-> from + 4]
      ELSE IF startsWith(rest, <<"f", "a", "l", "s", "e">>)
      THEN [ok |-> TRUE, v |-> Bool(FALSE), next |-> from + 5]
      ELSE IF IsDigit(t[from])
      THEN LET e == DigitsEnd(t, from)
           IN  IF t[from] = "0" /\ e > from + 1 THEN [ok |-> FALSE]
               ELSE [ok |-> TRUE,
                     v |-> Num(DigitsValue(SubSeq(t, from, e - 1))),
                     next |-> e]
      ELSE IF t[from] = "{"
      THEN IF from < Len(t) /\ t[from + 1] = "}"
           THEN [ok |-> TRUE, v |-> Obj(<<>>), next |-> from + 2]
           ELSE ParseJSONMembers(t, from + 1, <<>>)
      ELSE [ok |-> FALSE]

\* The members of an object literal from t[from] on, after those in acc.
ParseJSONMembers(t, from, acc) ==
  IF from > Len(t) \/ t[from] # "\"" THEN [ok |-> FALSE]
  ELSE LET key == ScanJSONString(t, from + 1)
       IN  IF ~key.ok THEN [ok |-> FALSE]
           ELSE IF key.next > Len(t) \/ t[key.next] # ":" THEN [ok |-> FALSE]
           ELSE LET value == ParseJSONValue(t, key.next + 1)
                IN  IF ~value.ok THEN [ok |-> FALSE]
                    ELSE IF value.next > Len(t) THEN [ok |-> FALSE]
                    ELSE IF t[value.next] = ","
                    THEN ParseJSONMembers(t, value.next + 1,
                                          SetMember(acc, key.v, value.v))
                    ELSE IF t[value.next] = "}"
                    THEN [ok |-> TRUE,
                          v |-> Obj(SetMember(acc, key.v, value.v)),
                          next |-> value.next + 1]
                    ELSE [ok |-> FALSE]

\* JSON.parse: the value, or a SyntaxError.
JSONParse(t) ==
  LET r == ParseJSONValue(t, 1)
  IN  IF r.ok /\ r.next = Len(t) + 1 THEN [ok |-> TRUE, v |-> r.v]
      ELSE [ok |-> FALSE, error |-> "SyntaxError"]

\* API endpoint paths and the default API base path.
AimoEndpoints ==
  [chatCompletions |-> <<"/", "c", "h", "a", "t", "/", "c", "o", "m", "p", "l", "e", "t", "i", "o", "n", "s">>,
   sessionBalance |-> <<"/", "s", "e", "s", "s", "i", "o", "n", "/", "b", "a", "l", "a", "n", "c", "e">>]

ApiBase == <<"/", "a", "p", "i", "/", "v", "1">>

\* s.replace(/^\/+/, "")
TrimLeadingSlashes(s) ==
  IF \A i \in 1..Len(s) : s[i] = "/" THEN <<>>
  ELSE SubSeq(s, CHOOSE i \in 1..Len(s) :
                   s[i] # "/" /\ \A j \in 1..(i - 1) : s[j] = "/",
              Len(s))

\* s.replace(/\/+$/, "")
TrimTrailingSlashes(s) ==
  IF \A i \in 1..Len(s) : s[i] = "/" THEN <<>>
  ELSE SubSeq(s, 1, CHOOSE i \in 1..Len(s) :
                      s[i] # "/" /\ \A j \in (i + 1)..Len(s) : s[j] = "/")

buildUrl(baseUrl, apiBase, endpoint) ==
  TrimTrailingSlashes(baseUrl) \o <<"/">>
    \o TrimLeadingSlashes(TrimTrailingSlashes(apiBase)) \o <<"/">>
    \o TrimLeadingSlashes(endpoint)

\* A response of the server: status line and body text.
ApiResponse(status, statusText, body) ==
  [kind |-> "response", status |-> status, statusText |-> statusText,
   body |-> body]

\* response.ok
ResponseOk(response) == response.status >= 200 /\ response.status <= 299

\* An error object: new Error(message), or an error the engine raises,
\* whose message is the engine's own text.
Thrown(name, message) == [kind |-> "error", name |-> name, message |-> message]

EngineError(name) == [kind |-> "error", name |-> name, message |-> Undefined]

\* `API request failed: ${response.status} ${response.statusText}`
FailedHead(response) ==
  <<"A", "P", "I", " ", "r", "e", "q", "u", "e", "s", "t", " ", "f", "a", "i", "l", "e", "d", ":", " ">> \o NumberToString(response.status) \o <<" ">>
    \o response.statusText

\* What handleErrorResponse throws once response.json() has settled with
\* read: the generic error when json() rejected, else the error with the
\* detail, unless reading errorBody.error itself throws (errorBody null).
handleErrorResponse(response, read) ==
  IF ~read.ok THEN Thrown("Error", FailedHead(response))
  ELSE IF read.v.kind = "null" THEN EngineError("TypeError")
  ELSE LET errorBody == read.v
           error == GetMember(errorBody, <<"e", "r", "r", "o", "r">>)
       IN  Thrown("Error",
                  FailedHead(response) \o <<" ", "-", " ">>
                    \o (IF ToBoolean(error) THEN TemplateString(error)
                        ELSE JSONStringify(errorBody)))

(***************************************************************************)
(* State                                                                   *)
(***************************************************************************)

VARIABLES
  cIn,            \* arguments of one call of an exported siwx function
  cOut,           \* what that call returned
  signerKind,     \* "evm" (EvmClientSigner) or "svm" (SvmClientSigner)
  options,        \* WrapFetchOptions given to wrapFetchWithSigner
  signerAddress,  \* signer.address
  clock,          \* Date.now()
  cache,          \* content of the session cache, by key
  started,        \* authenticated calls begun so far
  call,           \* per slot, one invocation of the wrapped fetch
  api             \* one call of a method of an AimoClient

canonVars == <<cIn, cOut>>

wrapperVars ==
  <<signerKind, options, signerAddress, clock, cache, started, call>>

vars ==
  <<cIn, cOut, signerKind, options, signerAddress, clock, cache, started,
    call, api>>

(***************************************************************************)
(* Arguments the exported siwx functions are called with                   *)
(***************************************************************************)

\* Longest resources array passed to createSIWxMessage.
MaxResources == 2

ExampleDomain == <<"a", ".", "i", "o">>
ExampleAddress == <<"0", "x", "A", "b">>
ExampleUri == <<"h", "t", "t", "p", "s", ":", "/", "/", "a", ".", "i", "o", "/", "r">>
ExampleExpirationTime == <<"2", "0", "3", "0", "-", "0", "1", "-", "0", "1", "T", "0", "0", ":", "0", "0", ":", "0", "0", ".", "0", "0", "0", "Z">>
ExampleStatement == <<"S", "i", "g", "n", " ", "i", "n">>
ExampleNonce == <<"n", "1">>
ExampleIssuedAt == <<"2", "0", "2", "9", "-", "1", "2", "-", "3", "1", "T", "2", "3", ":", "0", "0", ":", "0", "0", ".", "0", "0", "0", "Z">>
ExampleNotBefore == <<"2", "0", "2", "9", "-", "1", "2", "-", "3", "1", "T", "2", "2", ":", "0", "0", ":", "0", "0", ".", "0", "0", "0", "Z">>
ExampleRequestId == <<"q", "7">>
ExampleResources == {<<"h", "t", "t", "p", "s", ":", "/", "/", "a", ".", "i", "o", "/", "c">>, <<"r", "2">>}

ChainIds ==
  { <<"e", "i", "p", "1", "5", "5", ":", "1">>, <<"e", "i", "p", "1", "5", "5", ":", "1", "3", "7">>, <<"s", "o", "l", "a", "n", "a", ":", "5", "e", "y", "k", "t">>, <<"c", "o", "s", "m", "o", "s", ":", "f", "o", "o">>,
    <<"e", "i", "p", "1", "5", "5", "9", ":", "1">>, <<"s", "o", "l", "a", "n", "a", "x", ":", "1">>, <<"C", "o", "s", "m", "o", "s", ":", "h", "u", "b">>, <<":", "r", "e", "f">>, <<"x", ":">> }

\* undefined, null, the empty string, or a value.
OptionalValues(v) == {Undefined, Null, Str(<<>>), Str(v)}

ResourceArrays ==
  UNION {[1..n -> ExampleResources] : n \in 0..MaxResources}

ResourcesValues == {Undefined, Null} \cup {Arr(a) : a \in ResourceArrays}

SignatureValues == {Undefined, Str(<<>>), Str(<<"0", "x", "1", "f">>)}

BasePayload ==
  [domain |-> ExampleDomain, address |-> ExampleAddress,
   statement |-> Undefined, uri |-> ExampleUri, version |-> <<"1">>,
   chainId |-> <<"e", "i", "p", "1", "5", "5", ":", "1">>, nonce |-> Undefined, issuedAt |-> Undefined,
   expirationTime |-> ExampleExpirationTime, notBefore |-> Undefined,
   requestId |-> Undefined, resources |-> Undefined, signature |-> Undefined]

FullPayload ==
  [BasePayload EXCEPT
     !.statement = Str(ExampleStatement), !.nonce = Str(ExampleNonce),
     !.issuedAt = Str(ExampleIssuedAt), !.notBefore = Str(ExampleNotBefore),
     !.requestId = Str(ExampleRequestId), !.resources = Arr(<<<<"r", "2">>>>)]

\* Every combination of the optional scalar fields, without and with
\* resources.
ScalarFieldPayloads ==
  { [BasePayload EXCEPT !.statement = st, !.nonce = no, !.issuedAt = ia,
                        !.notBefore = nb, !.requestId = rq, !.resources = rs] :
      st \in OptionalValues(ExampleStatement),
      no \in OptionalValues(ExampleNonce),
      ia \in OptionalValues(ExampleIssuedAt),
      nb \in OptionalValues(ExampleNotBefore),
      rq \in OptionalValues(ExampleRequestId),
      rs \in {Undefined, Arr(<<<<"r", "2">>, <<"h", "t", "t", "p", "s", ":", "/", "/", "a", ".", "i", "o", "/", "c">>>>)} }

\* Every resources value, on the bare and on the fully populated payload.
ResourcesPayloads ==
  { [b EXCEPT !.resources = rs] :
      b \in {BasePayload, FullPayload}, rs \in ResourcesValues }

\* Every chain identifier and signature value, bare and fully populated.
ChainAndSignaturePayloads ==
  { [b EXCEPT !.chainId = ch, !.signature = sg] :
      b \in {BasePayload, FullPayload},
      ch \in ChainIds,
      sg \in SignatureValues }

PayloadArguments ==
  ScalarFieldPayloads \cup ResourcesPayloads \cup ChainAndSignaturePayloads

\* Strings of every length modulo 3, with the characters JSON escapes, a
\* Latin-1 letter and a code unit outside Latin-1.
StringArguments ==
  { <<>>, <<"a">>, <<"a", "b">>, <<"a", "b", "c">>, <<"0", "x", "1", "f">>, <<"\"">>, <<"\\", "n">>,
    <<"a", LF, "b">>, <<"U+0001">>, <<"U+00E9">>, <<"}", "\"", ",">>,
    <<EuroSign>>, <<"a", EuroSign>> }

\* A RequestInit: the fields the caller gave; all undefined for no init.
RequestInitOf(method, headers, body, signal) ==
  [method |-> method, headers |-> headers, body |-> body, signal |-> signal]

NoInit == RequestInitOf(Undefined, Undefined, Undefined, Undefined)

IdleApi ==
  [pc |-> "idle", op |-> "none", baseUrl |-> <<>>, body |-> Undefined,
   init |-> NoInit, request |-> Undefined, response |-> Undefined,
   fetchCalls |-> 0, bodyReads |-> 0, bodyBroken |-> FALSE,
   outcome |-> "none", value |-> Undefined, error |-> Undefined]

(***************************************************************************)
(* 4.4 Request authenticator: wrapFetchWithSigner                          *)
(***************************************************************************)

\* Authenticated calls begun in one behaviour.
MaxCalls == 3

\* Clock ticks of half a validity window in one behaviour.
MaxTicks == 3

TickMs == ValidityMs \div 2

\* The caller awaits each call before it makes the next one: one invocation
\* of the wrapped fetch is in flight at a time.
Slots == {1}

Addresses == {<<"0", "x", "A", "b">>, <<"0", "x", "C", "d">>}

RequestInputs ==
  { [kind |-> "string", text |-> <<"h", "t", "t", "p", "s", ":", "/", "/", "a", ".", "i", "o", "/", "r">>],
    [kind |-> "URL", href |-> <<"h", "t", "t", "p", "s", ":", "/", "/", "b", ".", "i", "o", "/", "p", "?", "q", "=", "1">>] }

SiwxDomainValues == {Undefined, Str(<<"o", ".", "i", "o">>)}

\* Signatures the wallet may produce: hex strings from signMessage, raw
\* signature bytes from signMessages.
WalletSignatures(kind) ==
  IF kind = "evm" THEN {<<"0", "x", "1", "f">>, <<"0", "x", "a", "2", "b", "4">>} ELSE {<<0, 7>>, <<255, 1, 2>>}

ResponseStatuses == {200, 401, 402, 500}

\* Errors signPayload may reject with: the user refuses, the wallet fails.
SignerErrors == {"UserRejected", "WalletFailed", "AbortError"}

\* An error sessionCache.get or sessionCache.set may reject with.
CacheErrors == {"CacheUnavailable"}

\* Errors fetchWithPayment may reject with: a failure of the network and a
\* failure of the payment.
TransportErrors == {"FetchFailed", "PaymentFailed", "AbortError"}

\* What fetchWithPayment settles with.
Response(status) == [kind |-> "response", status |-> status]

TransportError(error) == [kind |-> "error", error |-> error]

Payload(p) == [kind |-> "payload", v |-> p]

\* A payload held by the session cache. sentWith and builtAt are no part of
\* the stored value: they record the header of the call that stored the
\* payload and the time at which that call built it; sentWith is undefined
\* for a payload the wrapper did not store.
Entry(p, header, builtAt) ==
  [kind |-> "payload", v |-> p, sentWith |-> header, builtAt |-> builtAt]

\* An entry left in the cache by its owner whose expirationTime is no date.
ForeignEntry ==
  Entry([BasePayload EXCEPT !.expirationTime = <<"s", "o", "o", "n">>,
                            !.signature = Str(<<"0", "x", "0", "0">>)],
        Undefined, 0)

Settled == {"idle", "resolved", "rejected"}

IdleCall ==
  [pc |-> "idle", input |-> Undefined, init |-> NoInit,
   lookupKey |-> <<>>,
   madeUnder |-> Undefined, cached |-> Undefined, checkedAt |-> 0,
   path |-> "none", payload |-> Undefined, walletMessage |-> <<>>,
   walletKey |-> <<>>, native |-> <<>>, signature |-> <<>>,
   header |-> Undefined, setKey |-> <<>>, setValue |-> Undefined,
   payloads |-> 0, signCalls |-> 0, envelopes |-> 0, setCalls |-> 0,
   fetchCalls |-> 0, events |-> <<>>, sent |-> Undefined,
   signError |-> "none", cacheError |-> "none", answer |-> Undefined,
   outcome |-> "none", error |-> "none", status |-> 0]

WrapperInit ==
  /\ signerKind \in {"evm", "svm"}
  /\ options \in [siwxDomain : SiwxDomainValues, sessionCache : BOOLEAN]
  /\ signerAddress = <<"0", "x", "A", "b">>
  /\ clock = 0
  /\ cache \in {[a \in Addresses |-> Undefined]}
       \cup (IF options.sessionCache
             THEN {[a \in Addresses |->
                      IF a = <<"0", "x", "A", "b">> THEN ForeignEntry ELSE Undefined]}
             ELSE {})
  /\ started = 0
  /\ call = [c \in Slots |-> IdleCall]
  /\ api = IdleApi

\* input instanceof URL ? input.href : input
RequestInput(input) ==
  IF input.kind = "URL" THEN [kind |-> "string", text |-> input.href]
  ELSE input

\* fetchWithPayment invoked before the headers are merged.
DispatchEvents_BeforeMerge == <<"dispatch", "merge">>

\* The statements from the header merge to the invocation of
\* fetchWithPayment, in the order in which they run.
DispatchEvents == <<"merge", "dispatch">>

\* The call dispatched with init reduced to its headers.
Dispatched_HeadersOnly(r, header) ==
  [r EXCEPT !.pc = "awaitFetch",
            !.header = Str(header),
            !.events = r.events \o DispatchEvents,
            !.sent = [kind |-> "request", input |-> RequestInput(r.input),
                      init |-> [NoInit EXCEPT !.headers =
                                  MergeHeaders(r.init.headers, header)]],
            !.fetchCalls = r.fetchCalls + 1]

\* The call record once fetchWithPayment has been invoked with the header.
Dispatched(r, header) ==
  [r EXCEPT !.pc = "awaitFetch",
            !.header = Str(header),
            !.events = r.events \o DispatchEvents,
            !.sent = [kind |-> "request", input |-> RequestInput(r.input),
                      init |-> [r.init EXCEPT !.headers =
                                  MergeHeaders(r.init.headers, header)]],
            !.fetchCalls = r.fetchCalls + 1]

\* The call record once the async function has thrown; the locals are gone,
\* the path taken and the numbers of invocations stay on record.
Rejected(r, error) ==
  [IdleCall EXCEPT !.pc = "rejected", !.outcome = "rejected",
                   !.error = error, !.path = r.path,
                   !.payloads = r.payloads,
                   !.signCalls = r.signCalls,
                   !.envelopes = r.envelopes,
                   !.setCalls = r.setCalls, !.fetchCalls = r.fetchCalls,
                   !.events = r.events]

\* The header of the payload that the cache holds for the signer and that
\* has not expired at the time the wrapped fetch is invoked, if the wrapper
\* stored one.
HeaderInForce ==
  IF /\ options.sessionCache
     /\ CacheHit(cache[signerAddress], clock)
  THEN cache[signerAddress].sentWith
  ELSE Undefined

\* The wrapped fetch is invoked with input and init (NoInit when the caller
\* gives none): it reads signer.address and awaits sessionCache.get (or
\* awaits undefined when no cache is configured).
Begin(c, input, init) ==
  /\ call[c].pc \in Settled
  /\ started < MaxCalls
  /\ started' = started + 1
  /\ call' = [call EXCEPT ![c] =
       [IdleCall EXCEPT !.pc = "awaitGet",
                        !.input = input,
                        !.init = init,
                        !.events = <<"lookup">>,
                        !.lookupKey = IF options.sessionCache
                                      THEN signerAddress ELSE <<>>,
                        !.madeUnder = HeaderInForce]]
  /\ UNCHANGED <<canonVars, api, signerKind, options, signerAddress, clock, cache>>

\* The cache hit branch rebuilding the message for the URL of this call.
ReuseCached_ForRequestUri(r, cachedPayload) ==
  LET message == createSIWxMessage(
                   [cachedPayload.v EXCEPT !.uri = ResolveUri(r.input, options)])
      signature == cachedPayload.v.signature
      encoded == encodeSIWxHeader(message, ToStr(signature))
      r1 == [r EXCEPT !.cached = cachedPayload, !.checkedAt = clock,
                      !.path = "hit",
                      !.events = r.events \o <<"encode">>]
  IN  IF encoded.ok
      THEN Dispatched([r1 EXCEPT !.envelopes = r.envelopes + 1], encoded.v)
      ELSE Rejected(r1, encoded.error)

\* The cache hit branch: rebuild the message of the cached payload, encode
\* it with the cached signature, merge the headers and dispatch.
ReuseCached(r, cachedPayload) ==
  LET message == createSIWxMessage(cachedPayload.v)
      signature == cachedPayload.v.signature
      encoded == encodeSIWxHeader(message, ToStr(signature))
      r1 == [r EXCEPT !.cached = cachedPayload, !.checkedAt = clock,
                      !.path = "hit",
                      !.events = r.events \o <<"encode">>]
  IN  IF encoded.ok
      THEN Dispatched([r1 EXCEPT !.envelopes = r.envelopes + 1], encoded.v)
      ELSE Rejected(r1, encoded.error)

\* The statements of the signing branch up to its first suspension, in the
\* order in which they run: the payload literal, then signPayload, which
\* builds the message and calls the wallet.
SigningEvents == <<"payload", "message", "sign">>

\* The signing branch up to its first suspension: build the payload and
\* call signer.signPayload, which canonicalizes and calls the wallet.
StartSigning(r, cachedPayload) ==
  LET payload == FreshPayload(r.input, options, signerAddress,
                              SignerChainId(signerKind), clock)
      r1 == [r EXCEPT !.cached = cachedPayload, !.checkedAt = clock,
                      !.path = "signed"]
  IN  IF PayloadThrows(r.input, options) THEN Rejected(r1, "TypeError")
      ELSE [r1 EXCEPT !.payload = Payload(payload),
                      !.payloads = r.payloads + 1,
                      !.walletMessage = SignerMessage(payload, signerKind),
                      !.walletKey = signerAddress,
                      !.signCalls = r.signCalls + 1,
                      !.events = r.events \o SigningEvents,
                      !.pc = "awaitSign"]

\* sessionCache.get resolves and the function runs on to its next await.
GetResolves(c) ==
  /\ call[c].pc = "awaitGet"
  /\ LET cachedPayload == IF options.sessionCache
                          THEN cache[call[c].lookupKey] ELSE Undefined
     IN  call' = [call EXCEPT ![c] =
           IF CacheHit(cachedPayload, clock)
           THEN ReuseCached(call[c], cachedPayload)
           ELSE StartSigning(call[c], cachedPayload)]
  /\ UNCHANGED <<canonVars, api, signerKind, options, signerAddress, clock, cache,
                 started>>

\* sessionCache.get rejects: the await throws and so does the call, no
\* statement after it runs.
GetRejects(c, error) ==
  /\ call[c].pc = "awaitGet"
  /\ options.sessionCache
  /\ call' = [call EXCEPT ![c] =
       [Rejected(call[c], error) EXCEPT !.cacheError = error]]
  /\ UNCHANGED <<canonVars, api, signerKind, options, signerAddress, clock,
                 cache, started>>

\* The payload stored without the signature.
SetValue_Unsigned(r) == r.payload.v

\* const fullPayload = { ...payload, signature }
SetValue(r) == FullPayload_WithSignature(r.payload.v, r.signature)

\* signPayload resolved with signature: encode the header, then store the
\* full payload when a cache is configured, else dispatch.
AfterSigning(r, signature) ==
  LET encoded == encodeSIWxHeader(createSIWxMessage(r.payload.v), signature)
      r1 == [r EXCEPT !.signature = signature,
                      !.events = r.events \o <<"signed", "encode">>]
      r2 == [r1 EXCEPT !.envelopes = r.envelopes + 1]
  IN  IF ~encoded.ok THEN Rejected(r1, encoded.error)
      ELSE IF options.sessionCache
      THEN [r2 EXCEPT !.pc = "awaitSet",
                      !.header = Str(encoded.v),
                      !.setKey = signerAddress,
                      !.setValue = Payload(SetValue(r1)),
                      !.setCalls = r.setCalls + 1,
                      !.events = r1.events \o <<"store">>]
      ELSE Dispatched(r2, encoded.v)

\* The wallet produced a signature and signPayload ran to its end. The SVM
\* adapter looks the signature up under the wallet's current address and
\* fails when the dictionary has no such key.
SignResolves(c, walletSignature) ==
  /\ call[c].pc = "awaitSign"
  /\ walletSignature \in WalletSignatures(signerKind)
  /\ LET r == [call[c] EXCEPT
                 !.native = NativeSignature(signerKind, walletSignature)]
         result == SignPayloadResult(signerKind, r.walletMessage,
                                     walletSignature)
     IN  call' = [call EXCEPT ![c] =
           IF signerKind = "svm" /\ signerAddress # r.walletKey
           THEN Rejected(r, "TypeError")
           ELSE IF ~result.ok THEN Rejected(r, result.error)
           ELSE AfterSigning(r, result.v)]
  /\ UNCHANGED <<canonVars, api, signerKind, options, signerAddress, clock, cache,
                 started>>

\* The call rejecting with an error of its own in place of the signer's.
SignRejects_Wrapped(c, error) ==
  /\ call[c].pc = "awaitSign"
  /\ call' = [call EXCEPT ![c] =
       [Rejected(call[c], "SigningFailed") EXCEPT !.signError = error]]
  /\ UNCHANGED <<canonVars, api, signerKind, options, signerAddress, clock, cache,
                 started>>

\* The wallet refused or failed: signPayload rejects with error and so does
\* the call, no statement after the await runs.
SignRejects(c, error) ==
  /\ call[c].pc = "awaitSign"
  /\ call' = [call EXCEPT ![c] =
       [Rejected(call[c], error) EXCEPT !.signError = error]]
  /\ UNCHANGED <<canonVars, api, signerKind, options, signerAddress, clock, cache,
                 started>>

\* sessionCache.set resolves, true when the entry was stored; the function
\* then merges the headers and dispatches.
SetResolves(c, stored) ==
  /\ call[c].pc = "awaitSet"
  /\ cache' = IF stored
              THEN [cache EXCEPT ![call[c].setKey] =
                      Entry(call[c].setValue.v, call[c].header,
                            call[c].checkedAt)]
              ELSE cache
  /\ call' = [call EXCEPT ![c] = Dispatched(call[c], call[c].header.v)]
  /\ UNCHANGED <<canonVars, api, signerKind, options, signerAddress, clock,
                 started>>

\* The call dispatching although sessionCache.set rejected.
SetRejects_Swallowed(c, error) ==
  /\ call[c].pc = "awaitSet"
  /\ call' = [call EXCEPT ![c] =
       [Dispatched(call[c], call[c].header.v) EXCEPT !.cacheError = error]]
  /\ UNCHANGED <<canonVars, api, signerKind, options, signerAddress, clock,
                 cache, started>>

\* sessionCache.set rejects: the await throws and so does the call, before
\* the headers are merged; nothing is stored.
SetRejects(c, error) ==
  /\ call[c].pc = "awaitSet"
  /\ call' = [call EXCEPT ![c] =
       [Rejected(call[c], error) EXCEPT !.cacheError = error]]
  /\ UNCHANGED <<canonVars, api, signerKind, options, signerAddress, clock,
                 cache, started>>

\* The call turning a response with an error status into a rejection.
Delivered_ThrowsOnErrorStatus(answer) ==
  IF answer.kind = "response" /\ answer.status >= 400
  THEN TransportError("HTTPError")
  ELSE answer

\* return fetchWithPayment(...): the promise the call returns settles as
\* the promise of fetchWithPayment does.
Delivered(answer) == answer

\* fetchWithPayment settles with answer and so does the call; the locals
\* are gone, the path taken, the numbers of invocations and the order of
\* the statements stay on record.
FetchSettles(c, answer) ==
  /\ call[c].pc = "awaitFetch"
  /\ LET delivered == Delivered(answer)
         r == [IdleCall EXCEPT !.answer = answer,
                               !.path = call[c].path,
                               !.payloads = call[c].payloads,
                               !.signCalls = call[c].signCalls,
                               !.envelopes = call[c].envelopes,
                               !.setCalls = call[c].setCalls,
                               !.fetchCalls = call[c].fetchCalls,
                               !.events = call[c].events]
     IN  call' = [call EXCEPT ![c] =
           IF delivered.kind = "response"
           THEN [r EXCEPT !.pc = "resolved", !.outcome = "response",
                          !.status = delivered.status]
           ELSE [r EXCEPT !.pc = "rejected", !.outcome = "rejected",
                          !.error = delivered.error]]
  /\ UNCHANGED <<canonVars, api, signerKind, options, signerAddress, clock, cache,
                 started>>

\* The call signing a second payload when the transport answers 402.
FetchResolves_ResignsOn402(c, status) ==
  IF status = 402 /\ call[c].pc = "awaitFetch" /\ call[c].signCalls < 2
  THEN /\ call' = [call EXCEPT ![c] =
            StartSigning([call[c] EXCEPT !.events = <<"lookup">>],
                         call[c].cached)]
       /\ UNCHANGED <<canonVars, api, signerKind, options, signerAddress, clock,
                      cache, started>>
  ELSE FetchSettles(c, Response(status))

\* fetchWithPayment resolves with a response of any status.
FetchResolves(c, status) == FetchSettles(c, Response(status))

\* fetchWithPayment rejects.
FetchRejects(c, error) == FetchSettles(c, TransportError(error))

\* Time passes.
Tick ==
  /\ clock + TickMs <= MaxTicks * TickMs
  /\ clock' = clock + TickMs
  /\ UNCHANGED <<canonVars, api, signerKind, options, signerAddress, cache,
                 started, call>>

Init ==
  /\ cIn = [kind |-> "none"]
  /\ cOut = [op |-> "none"]
  /\ WrapperInit

\* Calls made one after the other over a shared cache and a running clock.
\* The transport answers 200 or 402 and the signer fails in one way here;
\* the other statuses and failures are taken up where one call is followed
\* over every form of its arguments.
Next ==
  \/ \E c \in Slots, input \in RequestInputs : Begin(c, input, NoInit)
  \/ \E c \in Slots : GetResolves(c)
  \/ \E c \in Slots, w \in WalletSignatures(signerKind) : SignResolves(c, w)
  \/ \E c \in Slots : SignRejects(c, "UserRejected")
  \/ \E c \in Slots, stored \in BOOLEAN : SetResolves(c, stored)
  \/ \E c \in Slots, status \in {200, 402} : FetchResolves(c, status)
  \/ Tick

Spec == Init /\ [][Next]_vars

(***************************************************************************)
(* One authenticated call, over the forms of its arguments                 *)
(***************************************************************************)

\* Headers in one init?.headers.
MaxHeaders == 2

RequestUrls ==
  { <<"h", "t", "t", "p", "s", ":", "/", "/", "r", "e", "a", "l", ".", "t", "e", "s", "t", "/", "p", "a", "t", "h", "?", "q", "=", "1">>,
    <<"h", "t", "t", "p", ":", "/", "/", "l", "o", "c", "a", "l", "h", "o", "s", "t", ":", "3", "0", "0", "0", "/", "v", "1", "/", "c", "h", "a", "t", "?", "m", "=", "1", "#", "t", "o", "p">>,
    <<"h", "t", "t", "p", "s", ":", "/", "/", "A", "p", "i", ".", "T", "e", "s", "t", ":", "4", "4", "3">>,
    <<"h", "t", "t", "p", "s", ":", "/", "/", "u", ":", "p", "w", "@", "b", ".", "i", "o", "/", "x">>,
    <<"/", "v", "1", "/", "c", "h", "a", "t">> }

\* new URL(str)
NewURL(str) == [kind |-> "URL", href |-> ParseUrl(str).href]

\* new Request(str, { headers }): the constructor throws for a string that
\* is no URL and for a URL with credentials.
NewRequest(str, headers) ==
  [kind |-> "Request", url |-> ParseUrl(str).href,
   headers |-> NewHeaders(headers)]

HeaderPairs ==
  { <<<<"A", "c", "c", "e", "p", "t">>, <<"a", "/", "b">>>>, <<<<"a", "c", "c", "e", "p", "t">>, <<"c", "/", "d">>>>,
    <<<<"X", "-", "I", "d">>, <<" ", "7", " ">>>>,
    <<<<"S", "e", "t", "-", "C", "o", "o", "k", "i", "e">>, <<"k", "=", "1">>>>, <<<<"s", "e", "t", "-", "c", "o", "o", "k", "i", "e">>, <<"k", "=", "2">>>>,
    <<<<"S", "i", "g", "n", "-", "I", "n", "-", "W", "i", "t", "h", "-", "X">>, <<"o", "l", "d">>>> }

HeaderLists ==
  UNION {[1..n -> HeaderPairs] : n \in 0..MaxHeaders}

\* The keys of an object literal are distinct.
ObjectLists ==
  {list \in HeaderLists :
     \A i, j \in 1..Len(list) : i # j => list[i][1] # list[j][1]}

HeadersInits ==
  {Undefined}
    \cup {PlainObject(list) : list \in ObjectLists}
    \cup {ArrayOfPairs(list) : list \in HeaderLists}
    \cup {HeadersInstance(list) : list \in HeaderLists}

\* (input, init?.headers) of the call: every form of input without
\* headers in init, one string input with every form of headers, and
\* Request inputs that carry headers of their own.
RequestArguments ==
  {<<[kind |-> "string", text |-> str], Undefined>> : str \in RequestUrls}
    \cup {<<NewURL(str), Undefined>> :
            str \in {s \in RequestUrls : ParseUrl(s).ok}}
    \cup {<<NewRequest(str, Undefined), Undefined>> :
            str \in {s \in RequestUrls :
                       ParseUrl(s).ok /\ ParseUrl(s).userinfo = <<>>}}
    \cup {<<[kind |-> "string", text |-> <<"h", "t", "t", "p", "s", ":", "/", "/", "r", "e", "a", "l", ".", "t", "e", "s", "t", "/", "p", "a", "t", "h", "?", "q", "=", "1">>],
            h>> : h \in HeadersInits}
    \cup {<<NewRequest(<<"h", "t", "t", "p", "s", ":", "/", "/", "r", "e", "a", "l", ".", "t", "e", "s", "t", "/", "p", "a", "t", "h", "?", "q", "=", "1">>,
                       PlainObject(<<<<<<"X", "-", "I", "d">>, <<"7">>>>>>)), h>> :
            h \in {Undefined, PlainObject(<<<<<<"A", "c", "c", "e", "p", "t">>, <<"a", "/", "b">>>>>>)}}

\* The fields of init other than headers: none, or a method, a body and
\* the signal of an AbortController.
InitRests ==
  { NoInit,
    RequestInitOf(Str(<<"P", "O", "S", "T">>), Undefined, Str(<<"{", "}">>),
                  Str(<<"s", "i", "g", "n", "a", "l", "-", "1">>)) }

RequestDomainValues == {Undefined, Str(<<"o", "v", "e", "r", "r", "i", "d", "e", ".", "t", "e", "s", "t">>), Str(<<>>)}

RequestInit ==
  /\ cIn = [kind |-> "none"]
  /\ cOut = [op |-> "none"]
  /\ signerKind = "evm"
  /\ options \in [siwxDomain : RequestDomainValues, sessionCache : {FALSE}]
  /\ signerAddress = <<"0", "x", "A", "b">>
  /\ clock = 0
  /\ cache = [a \in Addresses |-> Undefined]
  /\ started = 0
  /\ call = [c \in Slots |-> IdleCall]
  /\ api = IdleApi

RequestNext ==
  \/ \E c \in Slots, args \in RequestArguments, rest \in InitRests :
       started = 0 /\ Begin(c, args[1], [rest EXCEPT !.headers = args[2]])
  \/ \E c \in Slots : GetResolves(c)
  \/ \E c \in Slots, w \in WalletSignatures(signerKind) : SignResolves(c, w)
  \/ \E c \in Slots, error \in SignerErrors : SignRejects(c, error)
  \/ \E c \in Slots, status \in ResponseStatuses : FetchResolves(c, status)
  \/ \E c \in Slots, error \in TransportErrors : FetchRejects(c, error)

SpecRequest == RequestInit /\ [][RequestNext]_vars

(***************************************************************************)
(* Two calls of one wrapped fetch in flight together                       *)
(***************************************************************************)

\* The caller makes two calls without awaiting the first: each runs to its
\* next await whenever the promise it awaits settles.
ConcurrentSlots == {1, 2}

ConcurrentInit ==
  /\ cIn = [kind |-> "none"]
  /\ cOut = [op |-> "none"]
  /\ signerKind \in {"evm", "svm"}
  /\ options \in [siwxDomain : {Undefined}, sessionCache : BOOLEAN]
  /\ signerAddress = <<"0", "x", "A", "b">>
  /\ clock = 0
  /\ cache = [a \in Addresses |-> Undefined]
  /\ started = 0
  /\ call = [c \in ConcurrentSlots |-> IdleCall]
  /\ api = IdleApi

ConcurrentNext ==
  \/ \E c \in ConcurrentSlots, input \in RequestInputs :
       call[c].pc = "idle" /\ Begin(c, input, NoInit)
  \/ \E c \in ConcurrentSlots : GetResolves(c)
  \/ \E c \in ConcurrentSlots, w \in WalletSignatures(signerKind) :
       SignResolves(c, w)
  \/ \E c \in ConcurrentSlots, error \in SignerErrors : SignRejects(c, error)
  \/ \E c \in ConcurrentSlots, stored \in BOOLEAN : SetResolves(c, stored)
  \/ \E c \in ConcurrentSlots : FetchResolves(c, 200)

SpecConcurrent == ConcurrentInit /\ [][ConcurrentNext]_vars

(***************************************************************************)
(* Calls of one wrapped fetch while the wallet changes its account         *)
(***************************************************************************)

\* signer.address is a getter over the wallet: the wallet switches to
\* another account while calls are suspended.
AddressChanges(address) ==
  /\ address \in Addresses
  /\ address # signerAddress
  /\ signerAddress' = address
  /\ UNCHANGED <<canonVars, api, signerKind, options, clock, cache, started,
                 call>>

AccountsInit ==
  /\ cIn = [kind |-> "none"]
  /\ cOut = [op |-> "none"]
  /\ signerKind \in {"evm", "svm"}
  /\ options = [siwxDomain |-> Undefined, sessionCache |-> TRUE]
  /\ signerAddress = <<"0", "x", "A", "b">>
  /\ clock = 0
  /\ cache = [a \in Addresses |-> Undefined]
  /\ started = 0
  /\ call = [c \in ConcurrentSlots |-> IdleCall]
  /\ api = IdleApi

\* Two calls to one URL: what differs between them is the account.
AccountsNext ==
  \/ \E c \in ConcurrentSlots,
          input \in {i \in RequestInputs : i.kind = "string"} :
       call[c].pc = "idle" /\ Begin(c, input, NoInit)
  \/ \E c \in ConcurrentSlots : GetResolves(c)
  \/ \E c \in ConcurrentSlots, w \in WalletSignatures(signerKind) :
       SignResolves(c, w)
  \/ \E c \in ConcurrentSlots : SignRejects(c, "UserRejected")
  \/ \E c \in ConcurrentSlots : SetResolves(c, TRUE)
  \/ \E c \in ConcurrentSlots : FetchResolves(c, 200)
  \/ \E address \in Addresses : AddressChanges(address)

SpecAccounts == AccountsInit /\ [][AccountsNext]_vars

(***************************************************************************)
(* Calls over a session cache, where the cache, the signer and the         *)
(* transport answer every invocation                                       *)
(***************************************************************************)

\* Request targets: two absolute URLs and a string that new URL rejects.
LiveInputs ==
  RequestInputs \cup {[kind |-> "string", text |-> <<"/", "v", "1", "/", "c", "h", "a", "t">>]}

LiveInit ==
  /\ cIn = [kind |-> "none"]
  /\ cOut = [op |-> "none"]
  /\ signerKind \in {"evm", "svm"}
  /\ options \in [siwxDomain : SiwxDomainValues, sessionCache : {TRUE}]
  /\ signerAddress = <<"0", "x", "A", "b">>
  /\ clock = 0
  /\ cache = [a \in Addresses |-> Undefined]
  /\ started = 0
  /\ call = [c \in Slots |-> IdleCall]
  /\ api = IdleApi

\* sessionCache.get, signer.signPayload, sessionCache.set and
\* fetchWithPayment settle the promise they returned, one way or the other.
GetAnswers(c) ==
  \/ \E error \in CacheErrors : GetRejects(c, error)
  \/ GetResolves(c)

SignAnswers(c) ==
  \/ \E error \in SignerErrors : SignRejects(c, error)
  \/ \E w \in WalletSignatures(signerKind) : SignResolves(c, w)

SetAnswers(c) ==
  \/ \E error \in CacheErrors : SetRejects(c, error)
  \/ \E stored \in BOOLEAN : SetResolves(c, stored)

FetchAnswers(c) ==
  \/ \E error \in TransportErrors : FetchRejects(c, error)
  \/ \E status \in ResponseStatuses : FetchResolves(c, status)

LiveNext ==
  \/ \E c \in Slots, input \in LiveInputs : Begin(c, input, NoInit)
  \/ \E c \in Slots : GetResolves(c)
  \/ \E c \in Slots, error \in CacheErrors : GetRejects(c, error)
  \/ \E c \in Slots, w \in WalletSignatures(signerKind) : SignResolves(c, w)
  \/ \E c \in Slots, error \in SignerErrors : SignRejects(c, error)
  \/ \E c \in Slots, stored \in BOOLEAN : SetResolves(c, stored)
  \/ \E c \in Slots, error \in CacheErrors : SetRejects(c, error)
  \/ \E c \in Slots, status \in ResponseStatuses : FetchResolves(c, status)
  \/ \E c \in Slots, error \in TransportErrors : FetchRejects(c, error)

\* Every promise the call awaits is settled in the end, and the event loop
\* then runs the continuation of the call.
LiveFairness ==
  \A c \in Slots :
    /\ WF_vars(GetAnswers(c))
    /\ WF_vars(SignAnswers(c))
    /\ WF_vars(SetAnswers(c))
    /\ WF_vars(FetchAnswers(c))

SpecLive == LiveInit /\ [][LiveNext]_vars /\ LiveFairness

(***************************************************************************)
(* Calls of the exported siwx functions                                    *)
(***************************************************************************)

\* The wrapper at rest while the siwx functions are called directly.
WrapperAtRest ==
  /\ signerKind = "evm"
  /\ options = [siwxDomain |-> Undefined, sessionCache |-> FALSE]
  /\ signerAddress = <<"0", "x", "A", "b">>
  /\ clock = 0
  /\ cache = [a \in Addresses |-> Undefined]
  /\ started = 0
  /\ call = [c \in Slots |-> IdleCall]
  /\ api = IdleApi

CanonInit ==
  /\ WrapperAtRest
  /\ cIn \in {[kind |-> "payload", payload |-> p] : p \in PayloadArguments}
         \cup {[kind |-> "pair", message |-> m, signature |-> s] :
                 m \in StringArguments, s \in StringArguments}
  /\ cOut = [op |-> "none"]

CallGetChainName ==
  /\ cIn.kind = "payload"
  /\ cOut.op = "none"
  /\ cOut' = [op |-> "getChainName",
              chainName |-> getChainName(cIn.payload.chainId)]
  /\ UNCHANGED <<cIn, wrapperVars, api>>

CallCreateSIWxMessage ==
  /\ cIn.kind = "payload"
  /\ cOut.op = "none"
  /\ cOut' = [op |-> "createSIWxMessage",
              message |-> createSIWxMessage(cIn.payload)]
  /\ UNCHANGED <<cIn, wrapperVars, api>>

CallEncodeSIWxHeader ==
  /\ cIn.kind = "pair"
  /\ cOut.op = "none"
  /\ cOut' = [op |-> "encodeSIWxHeader",
              result |-> encodeSIWxHeader(cIn.message, cIn.signature)]
  /\ UNCHANGED <<cIn, wrapperVars, api>>

\* prepareSIWxForSigning(payload), then createHeader(signature) on its result.
CallPrepareSIWxForSigning ==
  /\ cIn.kind = "payload"
  /\ cOut.op = "none"
  /\ \E signature \in {<<"0", "x", "1", "f">>, <<"5", "T", "y", "N">>} :
       LET prepared == prepareSIWxForSigning(cIn.payload)
       IN  cOut' = [op |-> "prepareSIWxForSigning",
                    message |-> prepared.message,
                    signature |-> signature,
                    result |-> createHeader(prepared, signature)]
  /\ UNCHANGED <<cIn, wrapperVars, api>>

CanonNext ==
  \/ CallGetChainName
  \/ CallCreateSIWxMessage
  \/ CallEncodeSIWxHeader
  \/ CallPrepareSIWxForSigning

SpecCanon == CanonInit /\ [][CanonNext]_vars

(***************************************************************************)
(* Calls of the methods of an AimoClient over an injected fetch            *)
(***************************************************************************)

ContentTypeName == <<"C", "o", "n", "t", "e", "n", "t", "-", "T", "y", "p", "e">>

\* headers.set(name, value): the first header of that name takes the value
\* and the others of that name go; a new name is appended.
HeadersSet(list, name, value) ==
  LET same(i) == LowerCased(list[i][1]) = LowerCased(name)
      idx == {i \in 1..Len(list) : same(i)}
  IN  IF idx = {} THEN Append(list, <<name, value>>)
      ELSE LET first == CHOOSE i \in idx : \A j \in idx : i <= j
           IN  SelectSeq([i \in 1..Len(list) |->
                            IF i = first THEN <<list[i][1], value>>
                            ELSE IF same(i) THEN <<>> ELSE list[i]],
                         LAMBDA h : h # <<>>)

\* this.fetch(url, { ...init, method: "POST", headers, body: JSON.stringify(body) })
chatCompletionsRequest(baseUrl, body, init) ==
  [url |-> buildUrl(baseUrl, ApiBase, AimoEndpoints.chatCompletions),
   init |-> [init EXCEPT
               !.method = Str(<<"P", "O", "S", "T">>),
               !.headers = HeadersInstance(
                             HeadersSet(NewHeaders(init.headers),
                                        ContentTypeName,
                                        <<"a", "p", "p", "l", "i", "c", "a", "t", "i", "o", "n", "/", "j", "s", "o", "n">>)),
               !.body = Str(JSONStringify(body))]]

\* this.fetch(url, { ...init, method: "GET" })
sessionBalanceRequest(baseUrl, init) ==
  [url |-> buildUrl(baseUrl, ApiBase, AimoEndpoints.sessionBalance),
   init |-> [init EXCEPT !.method = Str(<<"G", "E", "T">>)]]

\* client.chatCompletions(body, init) runs up to its call of this.fetch.
CallChatCompletions(baseUrl, body, init) ==
  /\ api.pc \in {"idle", "resolved", "rejected"}
  /\ api' = [IdleApi EXCEPT !.pc = "awaitFetch", !.op = "chatCompletions",
                            !.baseUrl = baseUrl, !.body = body,
                            !.init = init,
                            !.request =
                              chatCompletionsRequest(baseUrl, body, init),
                            !.fetchCalls = 1]
  /\ UNCHANGED <<canonVars, wrapperVars>>

\* client.sessionBalance(init) runs up to its await of this.fetch.
CallSessionBalance(baseUrl, init) ==
  /\ api.pc \in {"idle", "resolved", "rejected"}
  /\ api' = [IdleApi EXCEPT !.pc = "awaitFetch", !.op = "sessionBalance",
                            !.baseUrl = baseUrl, !.init = init,
                            !.request = sessionBalanceRequest(baseUrl, init),
                            !.fetchCalls = 1]
  /\ UNCHANGED <<canonVars, wrapperVars>>

\* chatCompletions rejecting when the response is not ok.
chatCompletionsSettled_ChecksOk(a, response) ==
  IF ResponseOk(response)
  THEN [a EXCEPT !.pc = "resolved", !.response = response,
                 !.outcome = "resolved", !.value = response]
  ELSE [a EXCEPT !.pc = "rejected", !.response = response,
                 !.outcome = "rejected",
                 !.error = Thrown("Error", FailedHead(response))]

\* return this.fetch(...): the promise of chatCompletions resolves with the
\* response the transport resolved with.
chatCompletionsSettled(a, response) ==
  [a EXCEPT !.pc = "resolved", !.response = response,
            !.outcome = "resolved", !.value = response]

\* sessionBalance once this.fetch has resolved: it calls response.json(),
\* inside handleErrorResponse when the response is not ok, and awaits it.
sessionBalanceFetched(a, response) ==
  [a EXCEPT !.pc = IF ResponseOk(response) THEN "awaitJson"
                   ELSE "awaitErrorJson",
            !.response = response,
            !.bodyReads = a.bodyReads + 1]

\* The injected fetch resolves with response.
TransportResolves(response) ==
  /\ api.pc = "awaitFetch"
  /\ api' = IF api.op = "chatCompletions"
            THEN chatCompletionsSettled(api, response)
            ELSE sessionBalanceFetched(api, response)
  /\ UNCHANGED <<canonVars, wrapperVars>>

\* The injected fetch rejects and so does the method.
TransportRejects(error) ==
  /\ api.pc = "awaitFetch"
  /\ api' = [api EXCEPT !.pc = "rejected", !.outcome = "rejected",
                        !.error = EngineError(error)]
  /\ UNCHANGED <<canonVars, wrapperVars>>

\* response.json() settles: with the parsed body, with a SyntaxError for a
\* body that is no JSON text, or with a TypeError when the body could not
\* be read to its end (broken).
BodySettles(broken) ==
  /\ api.pc \in {"awaitJson", "awaitErrorJson"}
  /\ LET read == IF broken THEN [ok |-> FALSE, error |-> "TypeError"]
                 ELSE JSONParse(api.response.body)
         a == [api EXCEPT !.bodyBroken = broken]
     IN  api' =
           IF api.pc = "awaitErrorJson"
           THEN [a EXCEPT !.pc = "rejected", !.outcome = "rejected",
                          !.error = handleErrorResponse(api.response, read)]
           ELSE IF read.ok
           THEN [a EXCEPT !.pc = "resolved", !.outcome = "resolved",
                          !.value = read.v]
           ELSE [a EXCEPT !.pc = "rejected", !.outcome = "rejected",
                          !.error = EngineError(read.error)]
  /\ UNCHANGED <<canonVars, wrapperVars>>

BaseUrls == {<<"h", "t", "t", "p", "s", ":", "/", "/", "a", "p", "i", ".", "t", "e", "s", "t">>, <<"h", "t", "t", "p", "s", ":", "/", "/", "a", "p", "i", ".", "t", "e", "s", "t", "/", "/">>}

\* Status lines of the server; HTTP/2 responses have an empty status text.
StatusLines ==
  { <<200, <<"O", "K">>>>, <<204, <<"N", "o", " ", "C", "o", "n", "t", "e", "n", "t">>>>, <<401, <<"U", "n", "a", "u", "t", "h", "o", "r", "i", "z", "e", "d">>>>,
    <<402, <<"P", "a", "y", "m", "e", "n", "t", " ", "R", "e", "q", "u", "i", "r", "e", "d">>>>, <<500, <<>>>>, <<502, <<"B", "a", "d", " ", "G", "a", "t", "e", "w", "a", "y">>>> }

ResponseBodies ==
  { <<"{", "\"", "c", "a", "i", "p", "_", "a", "c", "c", "o", "u", "n", "t", "_", "i", "d", "\"", ":", "\"", "e", "i", "p", "1", "5", "5", ":", "1", ":", "0", "x", "A", "b", "\"", ",", "\"", "b", "a", "l", "a", "n", "c", "e", "_", "m", "i", "c", "r", "o", "_", "u", "s", "d", "c", "\"", ":", "5", ",", "\"", "b", "a", "l", "a", "n", "c", "e", "_", "u", "s", "d", "\"", ":", "\"", "0", ".", "0", "0", "0", "0", "0", "5", "\"", "}">>,
    <<"{", "\"", "c", "a", "i", "p", "_", "a", "c", "c", "o", "u", "n", "t", "_", "i", "d", "\"", ":", "\"", "e", "i", "p", "1", "5", "5", ":", "1", ":", "0", "x", "A", "b", "\"", ",", "\"", "b", "a", "l", "a", "n", "c", "e", "_", "m", "i", "c", "r", "o", "_", "u", "s", "d", "c", "\"", ":", "5", "}">>,
    <<"{", "}">>,
    <<"n", "u", "l", "l">>,
    <<"{", "\"", "e", "r", "r", "o", "r", "\"", ":", "\"", "n", "o", " ", "s", "e", "s", "s", "i", "o", "n", "\"", "}">>,
    <<"{", "\"", "e", "r", "r", "o", "r", "\"", ":", "\"", "\"", ",", "\"", "c", "o", "d", "e", "\"", ":", "7", "}">>,
    <<"{", "\"", "e", "r", "r", "o", "r", "\"", ":", "{", "\"", "c", "o", "d", "e", "\"", ":", "7", "}", "}">>,
    <<"{", "\"", "c", "o", "d", "e", "\"", ":", "7", ",", "\"", "d", "e", "t", "a", "i", "l", "\"", ":", "\"", "n", "o", "n", "e", "\"", "}">>,
    <<"\"", "d", "e", "n", "i", "e", "d", "\"">>,
    <<"u", "p", "s", "t", "r", "e", "a", "m", " ", "d", "o", "w", "n">>,
    <<>> }

ApiResponses ==
  {ApiResponse(line[1], line[2], body) :
     line \in StatusLines, body \in ResponseBodies}

ChatBodies ==
  { Obj(<<<<<<"m", "o", "d", "e", "l">>, Str(<<"m", "/", "1">>)>>, <<<<"s", "t", "r", "e", "a", "m">>, Bool(FALSE)>>>>),
    Str(<<"s", "a", "y", " ", "\"", "h", "i", "\"">>),
    Null }

RequestInits ==
  { NoInit,
    RequestInitOf(Str(<<"P", "U", "T">>),
                  PlainObject(<<<<<<"c", "o", "n", "t", "e", "n", "t", "-", "t", "y", "p", "e">>, <<"t", "e", "x", "t", "/", "p", "l", "a", "i", "n">>>>,
                                <<<<"X", "-", "I", "d">>, <<"7">>>>>>),
                  Str(<<"r", "a", "w">>), Str(<<"s", "i", "g", "n", "a", "l", "-", "1">>)) }

ClientInit ==
  /\ WrapperAtRest
  /\ cIn = [kind |-> "none"]
  /\ cOut = [op |-> "none"]

ClientNext ==
  \/ \E baseUrl \in BaseUrls, body \in ChatBodies, init \in RequestInits :
       CallChatCompletions(baseUrl, body, init)
  \/ \E baseUrl \in BaseUrls, init \in RequestInits :
       CallSessionBalance(baseUrl, init)
  \/ \E response \in ApiResponses : TransportResolves(response)
  \/ \E error \in TransportErrors : TransportRejects(error)
  \/ \E broken \in BOOLEAN : BodySettles(broken)

SpecClient == ClientInit /\ [][ClientNext]_vars

(***************************************************************************)
(* Properties of the canonicalizer and the codec                           *)
(***************************************************************************)

\* String.prototype.split on the line feed.
SplitLines(s) ==
  LET cuts == {i \in 1..Len(s) : s[i] = LF}
      cut(k) == IF k = 0 THEN 0
                ELSE IF k > Cardinality(cuts) THEN Len(s) + 1
                ELSE CHOOSE i \in cuts : Cardinality({j \in cuts : j <= i}) = k
  IN  [k \in 1..(Cardinality(cuts) + 1) |->
         SubSeq(s, cut(k - 1) + 1, cut(k) - 1)]

\* A field that is neither undefined nor null.
Present(x) == x.kind \notin {"undefined", "null"}

\* A field that holds a non-empty string.
PresentNonEmpty(x) == x.kind = "string" /\ x.v # <<>>

OptionalScalarFields ==
  {"statement", "nonce", "issuedAt", "notBefore", "requestId"}

\* The chain name as the namespace of the chain identifier decides it.
ChainNameOf(chainId) ==
  LET colon == CHOOSE i \in 1..Len(chainId) :
                 chainId[i] = ":" /\ \A j \in 1..(i - 1) : chainId[j] # ":"
      ns == SubSeq(chainId, 1, colon - 1)
  IN  IF ns = <<"e", "i", "p", "1", "5", "5">> THEN <<"E", "t", "h", "e", "r", "e", "u", "m">>
      ELSE IF ns = <<"s", "o", "l", "a", "n", "a">> THEN <<"S", "o", "l", "a", "n", "a">>
      ELSE IF ns = <<>> THEN <<>>
      ELSE <<toUpperCase(ns[1])>> \o SubSeq(ns, 2, Len(ns))

\* The lines of section 4.1 in their fixed order; has is the set of optional
\* scalar fields that count as present.
OrderedLines(p, has) ==
  << p.domain \o <<" ", "w", "a", "n", "t", "s", " ", "y", "o", "u", " ", "t", "o", " ", "s", "i", "g", "n", " ", "i", "n", " ", "w", "i", "t", "h", " ", "y", "o", "u", "r", " ">> \o ChainNameOf(p.chainId)
       \o <<" ", "a", "c", "c", "o", "u", "n", "t", ":">>,
     p.address,
     <<>> >>
  \o (IF "statement" \in has THEN <<p.statement.v, <<>>>> ELSE <<>>)
  \o << <<"U", "R", "I", ":", " ">> \o p.uri, <<"V", "e", "r", "s", "i", "o", "n", ":", " ">> \o p.version,
        <<"C", "h", "a", "i", "n", " ", "I", "D", ":", " ">> \o p.chainId >>
  \o (IF "nonce" \in has THEN <<<<"N", "o", "n", "c", "e", ":", " ">> \o p.nonce.v>> ELSE <<>>)
  \o (IF "issuedAt" \in has THEN <<<<"I", "s", "s", "u", "e", "d", " ", "A", "t", ":", " ">> \o p.issuedAt.v>> ELSE <<>>)
  \o << <<"E", "x", "p", "i", "r", "a", "t", "i", "o", "n", " ", "T", "i", "m", "e", ":", " ">> \o p.expirationTime >>
  \o (IF "notBefore" \in has THEN <<<<"N", "o", "t", " ", "B", "e", "f", "o", "r", "e", ":", " ">> \o p.notBefore.v>> ELSE <<>>)
  \o (IF "requestId" \in has THEN <<<<"R", "e", "q", "u", "e", "s", "t", " ", "I", "D", ":", " ">> \o p.requestId.v>> ELSE <<>>)
  \o (IF p.resources.kind = "array" /\ Len(p.resources.v) > 0
      THEN <<<<"R", "e", "s", "o", "u", "r", "c", "e", "s", ":">>>>
             \o [i \in 1..Len(p.resources.v) |-> <<"-", " ">> \o p.resources.v[i]]
      ELSE <<>>)

\* C4 as stated: the message is exactly the lines of section 4.1 in their
\* fixed order, joined by line feeds without a trailing one, where an
\* optional line is emitted whenever its field is present (not
\* undefined/null).
C4_LineOrderWhenPresent ==
  cOut.op = "createSIWxMessage" =>
    SplitLines(cOut.message) =
      OrderedLines(cIn.payload,
                   {f \in OptionalScalarFields : Present(cIn.payload[f])})

\* C4 amended: the message is exactly the lines of section 4.1 in their
\* fixed order, joined by line feeds without a trailing one, where an
\* optional scalar line is emitted if and only if its field holds a
\* non-empty string; an empty-string field is treated as absent.
C4_LineOrderWhenNonEmpty ==
  cOut.op = "createSIWxMessage" =>
    SplitLines(cOut.message) =
      OrderedLines(cIn.payload,
                   {f \in OptionalScalarFields :
                      PresentNonEmpty(cIn.payload[f])})

\* A message with every optional line and two resources has been built.
C4_Witness ==
  /\ cOut.op = "createSIWxMessage"
  /\ \A f \in OptionalScalarFields : PresentNonEmpty(cIn.payload[f])
  /\ cIn.payload.resources.kind = "array"
  /\ Len(cIn.payload.resources.v) = 2
  /\ Len(SplitLines(cOut.message)) = 16

LabelsOfOptionalFields ==
  [nonce |-> <<"N", "o", "n", "c", "e", ":", " ">>, issuedAt |-> <<"I", "s", "s", "u", "e", "d", " ", "A", "t", ":", " ">>,
   notBefore |-> <<"N", "o", "t", " ", "B", "e", "f", "o", "r", "e", ":", " ">>, requestId |-> <<"R", "e", "q", "u", "e", "s", "t", " ", "I", "D", ":", " ">>]

AllLabels ==
  { <<"U", "R", "I", ":", " ">>, <<"V", "e", "r", "s", "i", "o", "n", ":", " ">>, <<"C", "h", "a", "i", "n", " ", "I", "D", ":", " ">>, <<"N", "o", "n", "c", "e", ":", " ">>, <<"I", "s", "s", "u", "e", "d", " ", "A", "t", ":", " ">>,
    <<"E", "x", "p", "i", "r", "a", "t", "i", "o", "n", " ", "T", "i", "m", "e", ":", " ">>, <<"N", "o", "t", " ", "B", "e", "f", "o", "r", "e", ":", " ">>, <<"R", "e", "q", "u", "e", "s", "t", " ", "I", "D", ":", " ">> }

Placeholders == {<<>>, <<"u", "n", "d", "e", "f", "i", "n", "e", "d">>, <<"n", "u", "l", "l">>}

\* C5: an absent (undefined/null) optional field produces no line at all;
\* no line is a label with an empty or placeholder value; absent or empty
\* resources produce no "Resources:" line; the only empty lines are line 3
\* and the line after a present statement.
C5_AbsentFieldsOmitted ==
  cOut.op = "createSIWxMessage" =>
    LET p == cIn.payload
        lines == SplitLines(cOut.message)
        emptyLines == {i \in 1..Len(lines) : lines[i] = <<>>}
    IN  /\ \A f \in DOMAIN LabelsOfOptionalFields :
             ~Present(p[f]) =>
               \A i \in 1..Len(lines) :
                 ~startsWith(lines[i], LabelsOfOptionalFields[f])
        /\ ~Present(p.statement) => startsWith(lines[4], <<"U", "R", "I", ":", " ">>)
        /\ \A i \in 1..Len(lines) :
             \A l \in AllLabels : \A ph \in Placeholders :
               /\ lines[i] # l \o ph
               /\ lines[i] # SubSeq(l, 1, Len(l) - 1) \o ph
        /\ (~Present(p.resources) \/ Len(p.resources.v) = 0) =>
             \A i \in 1..Len(lines) :
               /\ lines[i] # <<"R", "e", "s", "o", "u", "r", "c", "e", "s", ":">>
               /\ ~startsWith(lines[i], <<"-", " ">>)
        /\ 3 \in emptyLines
        /\ emptyLines \subseteq
             {3} \cup (IF Present(p.statement) THEN {5} ELSE {})

\* A message was built from a payload whose optional fields are all absent,
\* some undefined and some null.
C5_Witness ==
  /\ cOut.op = "createSIWxMessage"
  /\ \A f \in OptionalScalarFields : ~Present(cIn.payload[f])
  /\ cIn.payload.statement = Null
  /\ cIn.payload.nonce = Undefined
  /\ ~Present(cIn.payload.resources)
  /\ Len(SplitLines(cOut.message)) = 7

\* C6: the message does not depend on the signature field: it equals the
\* message of the same payload with the signature absent or set to any
\* other value.
C6_SignatureIgnored ==
  cOut.op = "createSIWxMessage" =>
    \A sg \in SignatureValues :
      cOut.message = createSIWxMessage([cIn.payload EXCEPT !.signature = sg])

\* A message was built from a payload that carries a signature.
C6_Witness ==
  /\ cOut.op = "createSIWxMessage"
  /\ cIn.payload.signature = Str(<<"0", "x", "1", "f">>)
  /\ cOut.message = createSIWxMessage([cIn.payload EXCEPT !.signature = Undefined])

\* C7: the chain name is Ethereum for namespace eip155, Solana for
\* namespace solana, and otherwise the namespace with its first character
\* upper-cased.
C7_ChainNameFromNamespace ==
  cOut.op = "getChainName" =>
    cOut.chainName = ChainNameOf(cIn.payload.chainId)

\* The name of an unknown namespace has been resolved.
C7_Witness ==
  /\ cOut.op = "getChainName"
  /\ cIn.payload.chainId = <<"c", "o", "s", "m", "o", "s", ":", "f", "o", "o">>
  /\ cOut.chainName = <<"C", "o", "s", "m", "o", "s">>

\* C8: for every pair of strings, encoding succeeds and decoding the header
\* yields exactly the pair; createHeader of a prepared payload decodes to the
\* prepared message and the given signature.
C8_EnvelopeRoundTrip ==
  /\ cOut.op = "encodeSIWxHeader" =>
       /\ cOut.result.ok
       /\ decodeSIWxHeader(cOut.result.v) =
            [ok |-> TRUE, message |-> cIn.message, signature |-> cIn.signature]
  /\ cOut.op = "prepareSIWxForSigning" =>
       /\ cOut.result.ok
       /\ decodeSIWxHeader(cOut.result.v) =
            [ok |-> TRUE, message |-> cOut.message, signature |-> cOut.signature]

(***************************************************************************)
(* Properties of the signer adapters and the request authenticator         *)
(***************************************************************************)

\* The calls that hold what signer.signPayload returned.
SignedCalls ==
  {c \in DOMAIN call : call[c].path = "signed"
                   /\ call[c].pc \in {"awaitSet", "awaitFetch"}}

\* ^0x[0-9a-fA-F]+$
IsHexSignature(s) ==
  /\ Len(s) > 2
  /\ s[1] = "0" /\ s[2] = "x"
  /\ \A i \in 3..Len(s) :
       \/ IsDigit(s[i])
       \/ s[i] \in {"a", "b", "c", "d", "e", "f", "A", "B", "C", "D", "E", "F"}

IsBase58String(s) ==
  /\ Len(s) > 0
  /\ \A i \in 1..Len(s) : \E k \in 1..58 : Base58Alphabet[k] = s[i]

IsNativeSignature(kind, s) ==
  IF kind = "evm" THEN IsHexSignature(s) ELSE IsBase58String(s)

\* C1: for a call on the signing path, the header handed to the transport
\* decodes to exactly the canonical message of the constructed payload,
\* which is the message the wallet signed, and the signature the wallet
\* produced in its chain-native form.
C1_HeaderCarriesWalletSignature ==
  \A c \in DOMAIN call :
    (call[c].pc = "awaitFetch" /\ call[c].path = "signed") =>
      LET r == call[c]
          M == createSIWxMessage(r.payload.v)
      IN  /\ r.walletMessage = M
          /\ decodeSIWxHeader(r.sent.init.headers[SiwxHeaderName]) =
               [ok |-> TRUE, message |-> M, signature |-> r.native]

\* C2: signPayload returns the chain-native signature string alone: the
\* wallet's 0x-prefixed hex string from the EVM adapter, the base58 encoding
\* of the raw signature bytes from the SVM adapter.
C2_SignPayloadReturnsSignatureAlone ==
  \A c \in SignedCalls :
    /\ call[c].signature = call[c].native
    /\ IsNativeSignature(signerKind, call[c].signature)

\* C3: the string signPayload returns is a base64 token that decodes to an
\* object with the signed message and the chain-native signature.
C3_SignPayloadReturnsEnvelope ==
  \A c \in SignedCalls :
    LET decoded == decodeSIWxHeader(call[c].signature)
    IN  /\ decoded.ok
        /\ decoded.message = call[c].walletMessage
        /\ decoded.signature = call[c].native
        /\ IsNativeSignature(signerKind, decoded.signature)

\* C9: a call past its cache lookup took the hit path if and only if a
\* cache is configured and the payload the lookup returned has an
\* expirationTime strictly later than the time of the test; on the hit path
\* it invokes neither signPayload nor set and dispatches the header encoded
\* from the cached payload's message and signature; otherwise (no payload,
\* an unparsable or a reached expirationTime) it signs a fresh payload.
C9_CacheHitReuses ==
  \A c \in DOMAIN call :
    LET r == call[c]
        found == options.sessionCache /\ r.cached.kind = "payload"
        expiresAt == IF found THEN DateParse(r.cached.v.expirationTime)
                     ELSE NaN
        later == found /\ expiresAt # NaN /\ expiresAt > r.checkedAt
    IN  /\ r.path = "hit" => r.signCalls = 0 /\ r.setCalls = 0
        /\ r.pc \in {"awaitSign", "awaitSet", "awaitFetch"} =>
             IF later
             THEN /\ r.path = "hit"
                  /\ r.pc = "awaitFetch"
                  /\ r.header =
                       Str(encodeSIWxHeader(createSIWxMessage(r.cached.v),
                                            r.cached.v.signature.v).v)
                  /\ r.sent.init.headers[SiwxHeaderName] = r.header.v
             ELSE /\ r.path = "signed"
                  /\ r.signCalls = 1
                  /\ r.payload =
                       Payload(FreshPayload(r.input, options, signerAddress,
                                            SignerChainId(signerKind),
                                            r.checkedAt))
                  /\ r.walletMessage = createSIWxMessage(r.payload.v)

\* A call met an unexpired payload after time had passed and reused it.
C9_Witness ==
  \E c \in DOMAIN call :
    /\ call[c].pc = "awaitFetch"
    /\ call[c].path = "hit"
    /\ call[c].checkedAt > 0
    /\ call[c].signCalls = 0
    /\ call[c].fetchCalls = 1

\* The lookup returned a payload that an earlier call of the wrapper stored.
FoundStored(r) == r.cached.kind = "payload" /\ r.cached.sentWith # Undefined

FoundUnexpired(r) ==
  /\ FoundStored(r)
  /\ DateParse(r.cached.v.expirationTime) > r.checkedAt

\* A call whose lookup returns a stored payload at or after its
\* expirationTime signs again and its header differs from the one sent
\* with that payload.
C10_ResignsAfterExpiry ==
  \A c \in DOMAIN call :
    LET r == call[c]
    IN  (r.pc \in {"awaitSet", "awaitFetch"}
           /\ FoundStored(r) /\ ~FoundUnexpired(r)) =>
          /\ r.path = "signed"
          /\ r.signCalls = 1
          /\ r.header # r.cached.sentWith

\* C10 as stated: once a call has stored its signed payload, every call
\* made (invoked) before that payload's expirationTime carries the header
\* sent with that payload, so any two of them carry identical headers; a
\* call that finds the payload expired signs again and carries a different
\* header.
C10_SameHeaderWhenMadeBeforeExpiry ==
  /\ \A c \in DOMAIN call :
       (call[c].pc = "awaitFetch" /\ call[c].madeUnder # Undefined) =>
         call[c].header = call[c].madeUnder
  /\ C10_ResignsAfterExpiry

\* C10 amended: every call whose cache lookup returns a stored payload
\* before that payload's expirationTime carries the header sent with that
\* payload, so any two of them carry identical headers; a call whose lookup
\* returns it at or after its expirationTime signs again and carries a
\* different header.
C10_SameHeaderWhenFoundUnexpired ==
  /\ \A c \in DOMAIN call :
       (call[c].pc = "awaitFetch" /\ FoundUnexpired(call[c])) =>
         call[c].header = call[c].cached.sentWith
  /\ C10_ResignsAfterExpiry

\* A call found the payload of an earlier call expired, signed again and
\* was dispatched with another header.
C10_Witness ==
  \E c \in DOMAIN call :
    /\ call[c].pc = "awaitFetch"
    /\ FoundStored(call[c])
    /\ ~FoundUnexpired(call[c])
    /\ call[c].path = "signed"
    /\ call[c].header # call[c].cached.sentWith

(***************************************************************************)
(* Properties of the cache store                                           *)
(***************************************************************************)

\* The fields of the payload that is handed to signPayload.
SignedPayloadFields ==
  {"domain", "address", "statement", "uri", "version", "chainId", "nonce",
   "issuedAt", "expirationTime", "notBefore", "requestId", "resources"}

\* The header that a call on the cache hit path builds from stored.
RebuiltHeader(stored) ==
  encodeSIWxHeader(createSIWxMessage(stored), ToStr(stored.signature))

\* C11: on a cache miss with a session cache configured, sessionCache.set is
\* called exactly once, after signPayload resolved and before the transport
\* is invoked, with key signer.address and with a value that has the signed
\* payload's fields and, as signature, the string signPayload returned; the
\* message rebuilt from that value and its signature encode to the header
\* the call sends, and the payload the cache holds once the call has stored
\* is that value.
C11_StoresSignedPayloadOnce ==
  \A c \in DOMAIN call :
    LET r == call[c]
    IN  /\ (r.path = "signed" /\ r.pc = "awaitSign") =>
             r.setCalls = 0 /\ r.fetchCalls = 0
        /\ (r.path = "signed" /\ options.sessionCache
              /\ r.pc = "awaitSet") =>
             /\ r.setCalls = 1
             /\ r.fetchCalls = 0
             /\ r.setKey = signerAddress
             /\ \A f \in SignedPayloadFields :
                  r.setValue.v[f] = r.payload.v[f]
             /\ \E w \in WalletSignatures(signerKind) :
                  /\ NativeSignature(signerKind, w) = r.native
                  /\ SignPayloadResult(signerKind, r.walletMessage, w) =
                       [ok |-> TRUE, v |-> r.setValue.v.signature.v]
             /\ r.setValue.v.signature.kind = "string"
             /\ RebuiltHeader(r.setValue.v).ok
             /\ Str(RebuiltHeader(r.setValue.v).v) = r.header
        /\ (r.path = "signed" /\ options.sessionCache
              /\ r.pc = "awaitFetch") =>
             /\ r.setCalls = 1
             /\ r.sent.init.headers[SiwxHeaderName] = r.header.v
             /\ (/\ cache[r.setKey].kind = "payload"
                 /\ cache[r.setKey].sentWith = r.header) =>
                  cache[r.setKey].v = r.setValue.v
        /\ (r.path = "signed" /\ options.sessionCache
              /\ r.pc = "resolved") => r.setCalls = 1

\* A call on the signing path has stored its payload and has dispatched.
C11_Witness ==
  \E c \in DOMAIN call :
    /\ call[c].pc = "awaitFetch"
    /\ call[c].path = "signed"
    /\ call[c].setCalls = 1
    /\ cache[signerAddress].kind = "payload"
    /\ cache[signerAddress].v = call[c].setValue.v
    /\ cache[signerAddress].sentWith = call[c].header

(***************************************************************************)
(* Properties of the payload and the headers of one call                   *)
(***************************************************************************)

\* The calls that have constructed a fresh payload and hold it.
PayloadBuilt == {c \in DOMAIN call : call[c].payload # Undefined}

\* The URL the call is addressed to, as a string, string input as given.
UrlStringOf(input) ==
  IF input.kind = "string" THEN input.text
  ELSE IF input.kind = "URL" THEN input.href
  ELSE input.url

\* C12: the domain of every freshly constructed payload is
\* options.siwxDomain whenever that option is supplied, the empty string
\* included, and otherwise the host (host name, and port if the URL has one
\* that is not the default of its scheme) of the request URL, for string,
\* URL and Request inputs.
C12_DomainResolved ==
  \A c \in PayloadBuilt :
    LET domain == call[c].payload.v.domain
        url == ParseUrl(UrlStringOf(call[c].input))
    IN  IF options.siwxDomain # Undefined
        THEN domain = options.siwxDomain.v
        ELSE /\ url.ok
             /\ domain = url.hostname
                  \o (IF url.host = url.hostname THEN <<>>
                      ELSE SubSeq(url.host, Len(url.hostname) + 1,
                                  Len(url.host)))
             /\ domain = url.host

\* A payload built for a Request input addressed to a host with a port, no
\* siwxDomain supplied.
C12_Witness ==
  \E c \in PayloadBuilt :
    /\ options.siwxDomain = Undefined
    /\ call[c].input.kind = "Request"
    /\ call[c].payload.v.domain = <<"l", "o", "c", "a", "l", "h", "o", "s", "t", ":", "3", "0", "0", "0">>

\* C13: the uri of every freshly constructed payload is, when siwxDomain is
\* a non-empty string, "https://" followed by siwxDomain and by the pathname
\* and the search of the request URL, whatever the scheme, the credentials,
\* the port and the fragment of the request URL; when siwxDomain is not
\* supplied or is the empty string, it is the request URL verbatim.
C13_UriRewrittenOverHttps ==
  \A c \in PayloadBuilt :
    LET uri == call[c].payload.v.uri
        url == ParseUrl(UrlStringOf(call[c].input))
    IN  IF PresentNonEmpty(options.siwxDomain)
        THEN /\ url.ok
             /\ uri = <<"h", "t", "t", "p", "s", ":", "/", "/">> \o options.siwxDomain.v
                        \o url.pathname \o url.search
        ELSE uri = UrlStringOf(call[c].input)

\* siwxDomain "override.test" and a request to
\* https://real.test/path?q=1 give the uri https://override.test/path?q=1.
C13_Witness ==
  \E c \in PayloadBuilt :
    /\ options.siwxDomain = Str(<<"o", "v", "e", "r", "r", "i", "d", "e", ".", "t", "e", "s", "t">>)
    /\ UrlStringOf(call[c].input) = <<"h", "t", "t", "p", "s", ":", "/", "/", "r", "e", "a", "l", ".", "t", "e", "s", "t", "/", "p", "a", "t", "h", "?", "q", "=", "1">>
    /\ call[c].payload.v.uri = <<"h", "t", "t", "p", "s", ":", "/", "/", "o", "v", "e", "r", "r", "i", "d", "e", ".", "t", "e", "s", "t", "/", "p", "a", "t", "h", "?", "q", "=", "1">>
    /\ call[c].payload.v.domain = <<"o", "v", "e", "r", "r", "i", "d", "e", ".", "t", "e", "s", "t">>

\* The request URL with its host replaced by domain: the scheme, the
\* pathname and the search kept, with or without the credentials and the
\* fragment.
HostReplaced(url, domain) ==
  { url.protocol \o <<"/", "/">> \o userinfo \o domain
      \o url.pathname \o url.search \o hash :
        userinfo \in {<<>>, url.userinfo}, hash \in {<<>>, url.hash} }

\* C13 as stated: when siwxDomain is set the uri is the request URL with
\* its host replaced by siwxDomain, and otherwise the request URL verbatim.
C13_HostReplacedWhenSet ==
  \A c \in PayloadBuilt :
    LET uri == call[c].payload.v.uri
        url == ParseUrl(UrlStringOf(call[c].input))
    IN  IF options.siwxDomain # Undefined
        THEN url.ok /\ uri \in HostReplaced(url, options.siwxDomain.v)
        ELSE uri = UrlStringOf(call[c].input)

\* The headers the caller supplied with the request, those fetch(input,
\* init) sends for it: the headers of init, or else those of a Request
\* input.
CallerHeaders(r) ==
  IF r.init.headers # Undefined THEN NewHeaders(r.init.headers)
  ELSE IF r.input.kind = "Request" THEN r.input.headers
  ELSE <<>>

\* The header value combined is v, or holds v as one of its members
\* separated by ", ".
HasMember(combined, v) ==
  \E i \in 1..(Len(combined) - Len(v) + 1) :
    LET end == i + Len(v) - 1
    IN  /\ SubSeq(combined, i, end) = v
        /\ i = 1 \/ (i > 2 /\ SubSeq(combined, i - 2, i - 1) = <<",", " ">>)
        /\ \/ end = Len(combined)
           \/ /\ end + 2 <= Len(combined)
              /\ SubSeq(combined, end + 1, end + 2) = <<",", " ">>

\* C14: every header the caller supplied with the request whose name is not
\* SIGN-IN-WITH-X is, under its name in whatever case and with its value,
\* alone or as a member of the combined value of that name, among the
\* headers of the request handed to the payment-aware transport, together
\* with the SIGN-IN-WITH-X header of the call.
C14_CallerHeadersKept ==
  \A c \in DOMAIN call :
    call[c].pc = "awaitFetch" =>
      LET r == call[c]
          passed == FetchHeaders(r.sent.input, r.sent.init)
          supplied == CallerHeaders(r)
      IN  /\ SiwxHeaderName \in DOMAIN passed
          /\ passed[SiwxHeaderName] = r.header.v
          /\ \A i \in 1..Len(supplied) :
               LowerCased(supplied[i][1]) # LowerCased(SiwxHeaderName) =>
                 \E key \in DOMAIN passed :
                   /\ LowerCased(key) = LowerCased(supplied[i][1])
                   /\ HasMember(passed[key], supplied[i][2])

(***************************************************************************)
(* Properties of the outcome of a call                                     *)
(***************************************************************************)

\* The calls that have settled after fetchWithPayment was invoked.
SettledAfterDispatch ==
  {c \in DOMAIN call :
     call[c].pc \in {"resolved", "rejected"} /\ call[c].fetchCalls > 0}

\* C15: a call that has dispatched resolves with the response
\* fetchWithPayment resolved with, whatever its status (401, 402 and 500
\* are delivered as responses), and rejects with the error fetchWithPayment
\* rejected with; it resolves only with a response of the transport.
C15_TransportAnswerDelivered ==
  /\ \A c \in SettledAfterDispatch :
       LET r == call[c]
       IN  /\ r.answer # Undefined
           /\ r.answer.kind = "response" =>
                /\ r.pc = "resolved"
                /\ r.outcome = "response"
                /\ r.status = r.answer.status
                /\ r.error = "none"
           /\ r.answer.kind = "error" =>
                /\ r.pc = "rejected"
                /\ r.outcome = "rejected"
                /\ r.error = r.answer.error
  /\ \A c \in DOMAIN call :
       call[c].pc = "resolved" =>
         /\ c \in SettledAfterDispatch
         /\ call[c].answer.kind = "response"

\* A call has resolved with the 500 response of the transport.
C15_Witness ==
  \E c \in SettledAfterDispatch :
    /\ call[c].pc = "resolved"
    /\ call[c].answer = Response(500)
    /\ call[c].status = 500

\* The calls that have rejected because signPayload rejected.
SigningRejected ==
  {c \in DOMAIN call :
     call[c].pc = "rejected" /\ call[c].signError # "none"}

\* C16: a call whose signPayload rejects rejects with the error of the
\* signer, has invoked signPayload once, has encoded no envelope, has
\* called neither sessionCache.set nor fetchWithPayment, and the step in
\* which it rejects leaves the content of the session cache as it was.
C16_SigningFailurePropagates ==
  /\ [](\A c \in SigningRejected :
          /\ call[c].error = call[c].signError
          /\ call[c].error \in SignerErrors
          /\ call[c].outcome = "rejected"
          /\ call[c].signCalls = 1
          /\ call[c].envelopes = 0
          /\ call[c].setCalls = 0
          /\ call[c].fetchCalls = 0
          /\ call[c].answer = Undefined)
  /\ [][\A c \in DOMAIN call :
          (call[c].pc = "awaitSign" /\ call'[c].pc = "rejected") =>
            cache' = cache]_vars

\* A call has rejected with the signer's error while the cache held an
\* entry.
C16_Witness ==
  \E c \in SigningRejected :
    /\ call[c].error = "UserRejected"
    /\ options.sessionCache
    /\ cache[signerAddress] # Undefined

(***************************************************************************)
(* Properties of the order and the number of the steps of a call           *)
(***************************************************************************)

\* The steps of one call in the order the function text gives them.
StepOrder ==
  <<"lookup", "payload", "message", "sign", "signed", "encode", "store",
    "merge", "dispatch">>

Rank(step) == CHOOSE i \in 1..Len(StepOrder) : StepOrder[i] = step

Happened(r, step) == \E i \in 1..Len(r.events) : r.events[i] = step

BetweenLookupAndStore(r) ==
  r.path = "signed" /\ r.pc \in {"awaitSign", "awaitSet"}

\* C18: with a session cache, no cache lookup of one call falls between the
\* cache lookup and the cache store of another call, so that of two calls
\* starting from an empty cache whose stores succeed, not both sign.
C18_LookupToStoreAtomic ==
  options.sessionCache =>
    /\ \A c, d \in DOMAIN call :
         c # d =>
           ~(BetweenLookupAndStore(call[c]) /\ BetweenLookupAndStore(call[d]))
    /\ \A c, d \in DOMAIN call :
         (c # d /\ call[c].pc = "awaitFetch" /\ call[d].pc = "awaitFetch"
            /\ cache[signerAddress] # Undefined) =>
           ~(call[c].signCalls = 1 /\ call[d].signCalls = 1)

UriOfCall(r) == ResolveUri(r.input, options)

\* The lookup of r returned an unexpired payload that an earlier call
\* stored and that was signed for another uri than that of r.
FoundForOtherUri(r) ==
  /\ FoundUnexpired(r)
  /\ r.cached.v.uri # UriOfCall(r)
  /\ InputUrlString(r.input) # r.cached.v.uri

\* C21: a call whose lookup returns an unexpired stored payload signed for
\* another uri builds no payload of its own and sends, under SIGN-IN-WITH-X,
\* the very header that was sent with the stored payload; the cache is read
\* under signer.address alone.
C21_HeaderReusedAcrossUris ==
  \A c \in DOMAIN call :
    LET r == call[c]
    IN  (r.pc = "awaitFetch" /\ FoundForOtherUri(r)) =>
          /\ r.lookupKey = signerAddress
          /\ r.path = "hit"
          /\ r.payloads = 0
          /\ r.signCalls = 0
          /\ Str(r.sent.init.headers[SiwxHeaderName]) = r.cached.sentWith
          /\ r.sent.input = RequestInput(r.input)

\* A call to one URL was dispatched with the header of a payload that was
\* signed for another.
C21_Witness ==
  \E c \in DOMAIN call :
    /\ call[c].pc = "awaitFetch"
    /\ FoundForOtherUri(call[c])
    /\ Str(call[c].sent.init.headers[SiwxHeaderName]) =
         call[c].cached.sentWith

(***************************************************************************)
(* Properties of the typed API client                                      *)
(***************************************************************************)

\* String.prototype.includes
Contains(s, sub) ==
  \E i \in 0..(Len(s) - Len(sub)) : SubSeq(s, i + 1, i + Len(sub)) = sub

\* sessionBalance has received a response that is not ok and has read its
\* body to the end.
BalanceRefused ==
  /\ api.op = "sessionBalance"
  /\ api.response # Undefined
  /\ ~ResponseOk(api.response)
  /\ api.pc # "awaitErrorJson"
  /\ ~api.bodyBroken

\* The server's error body as the message is to show it: the error field
\* of a JSON object that has one, the serialized body for any other JSON
\* value, the raw text for a body that is no JSON text.
ErrorDetail(body) ==
  LET parsed == JSONParse(body)
  IN  IF ~parsed.ok THEN body
      ELSE IF GetMember(parsed.v, <<"e", "r", "r", "o", "r">>) # Undefined
      THEN TemplateString(GetMember(parsed.v, <<"e", "r", "r", "o", "r">>))
      ELSE JSONStringify(parsed.v)

\* C22: sessionBalance never resolves on a response that is not 2xx, and
\* the message of the error it throws contains the status, the status text
\* and the server's error body: the error field of a JSON body that has
\* one, the serialized JSON body that has none, the raw text of a body that
\* is not JSON.
C22_ErrorEmbedsServerBody ==
  /\ (api.op = "sessionBalance" /\ api.response # Undefined
        /\ ~ResponseOk(api.response)) =>
       api.pc \in {"awaitErrorJson", "rejected"}
  /\ BalanceRefused =>
       /\ api.pc = "rejected"
       /\ api.error.name = "Error"
       /\ Contains(api.error.message, NumberToString(api.response.status))
       /\ Contains(api.error.message, api.response.statusText)
       /\ Contains(api.error.message, ErrorDetail(api.response.body))

\* For the bodies that are JSON objects the message is the status
\* line followed by the error field, or by the serialized body when the
\* error field is absent or falsy.
ErrorEmbedsJsonObjectBody ==
  (BalanceRefused /\ JSONParse(api.response.body).ok
     /\ JSONParse(api.response.body).v.kind = "object") =>
    /\ api.pc = "rejected"
    /\ api.error.name = "Error"
    /\ Contains(api.error.message, NumberToString(api.response.status))
    /\ Contains(api.error.message, api.response.statusText)
    /\ Contains(api.error.message, ErrorDetail(api.response.body))

BalanceFields ==
  {<<"c", "a", "i", "p", "_", "a", "c", "c", "o", "u", "n", "t", "_", "i", "d">>, <<"b", "a", "l", "a", "n", "c", "e", "_", "m", "i", "c", "r", "o", "_", "u", "s", "d", "c">>, <<"b", "a", "l", "a", "n", "c", "e", "_", "u", "s", "d">>}

\* C23: a value that sessionBalance resolves with is a JSON object that
\* has the three fields caip_account_id, balance_micro_usdc, balance_usd.
C23_BalanceHasThreeFields ==
  (api.op = "sessionBalance" /\ api.pc = "resolved") =>
    /\ ResponseOk(api.response)
    /\ api.value.kind = "object"
    /\ \A f \in BalanceFields : GetMember(api.value, f) # Undefined

\* Whatever its fields, sessionBalance resolves only on a 2xx
\* response whose body is a JSON text, with the value of that text.
BalanceIsParsedBody ==
  (api.op = "sessionBalance" /\ api.pc = "resolved") =>
    /\ ResponseOk(api.response)
    /\ JSONStringify(api.value) = api.response.body

\* C24: chatCompletions calls the injected fetch once, with the method
\* POST, the built URL, the caller's signal and a body that is the JSON
\* text of the caller's body; it never reads the response body, resolves
\* with the very response the fetch resolved with, whatever its status,
\* and rejects only when the fetch rejects.
C24_ChatReturnsRawResponse ==
  api.op = "chatCompletions" =>
    /\ api.fetchCalls = 1
    /\ api.bodyReads = 0
    /\ api.request.url = <<"h", "t", "t", "p", "s", ":", "/", "/", "a", "p", "i", ".", "t", "e", "s", "t", "/", "a", "p", "i", "/", "v", "1", "/", "c", "h", "a", "t", "/", "c", "o", "m", "p", "l", "e", "t", "i", "o", "n", "s">>
    /\ api.request.init.method = Str(<<"P", "O", "S", "T">>)
    /\ api.request.init.signal = api.init.signal
    /\ api.request.init.body.kind = "string"
    /\ JSONParse(api.request.init.body.v) = [ok |-> TRUE, v |-> api.body]
    /\ api.response # Undefined =>
         /\ api.pc = "resolved"
         /\ api.outcome = "resolved"
         /\ api.value = api.response
    /\ api.pc = "rejected" =>
         /\ api.response = Undefined
         /\ api.error.name \in TransportErrors

\* chatCompletions resolved with a 402 response that has an error body.
C24_Witness ==
  /\ api.op = "chatCompletions"
  /\ api.pc = "resolved"
  /\ api.value.status = 402
  /\ api.value.body = <<"{", "\"", "e", "r", "r", "o", "r", "\"", ":", "\"", "n", "o", " ", "s", "e", "s", "s", "i", "o", "n", "\"", "}">>
  /\ api.bodyReads = 0

(***************************************************************************)
(* Properties of the validity window                                       *)
(***************************************************************************)

\* C25: the expirationTime of a freshly built payload is the ISO-8601
\* rendering of the time at which it is built plus 3,600,000 ms, a date
\* strictly later than that time; a call whose lookup returns a stored
\* payload reuses it if and only if its expiry test runs less than one hour
\* after the payload was built.
C25_ExpiresOneHourAfterBuilt ==
  \A c \in DOMAIN call :
    LET r == call[c]
    IN  /\ r.payload # Undefined =>
             /\ r.payload.v.expirationTime =
                  toISOString(r.checkedAt + 3600000)
             /\ DateParse(r.payload.v.expirationTime) = r.checkedAt + 3600000
             /\ DateParse(r.payload.v.expirationTime) > r.checkedAt
        /\ (r.pc \in {"awaitSign", "awaitSet", "awaitFetch"}
              /\ FoundStored(r)) =>
             (r.path = "hit" <=> r.checkedAt < r.cached.builtAt + 3600000)

\* A call found a stored payload exactly one hour after it was built and
\* built a payload of its own that expires one hour later.
C25_Witness ==
  \E c \in DOMAIN call :
    /\ call[c].pc = "awaitSign"
    /\ FoundStored(call[c])
    /\ call[c].checkedAt = call[c].cached.builtAt + 3600000
    /\ call[c].path = "signed"
    /\ DateParse(call[c].payload.v.expirationTime) =
         call[c].checkedAt + 3600000

(***************************************************************************)
(* Properties of what the wrapper hands on to the transport                *)
(***************************************************************************)

\* The fields of a RequestInit other than headers.
OtherInitFields == {"method", "body", "signal"}

\* C26: the transport is invoked with the caller's method, body and signal
\* unchanged and with the caller's request target, a URL object as its href
\* and a string or a Request as it is; an abort error with which the
\* signer or the transport rejects is the error the call rejects with.
C26_InitAndTargetPassedOn ==
  \A c \in DOMAIN call :
    LET r == call[c]
    IN  /\ r.pc = "awaitFetch" =>
             /\ \A f \in OtherInitFields : r.sent.init[f] = r.init[f]
             /\ r.sent.input =
                  IF r.input.kind = "URL"
                  THEN [kind |-> "string", text |-> r.input.href]
                  ELSE r.input
        /\ r.signError = "AbortError" =>
             r.pc = "rejected" /\ r.error = "AbortError" /\ r.fetchCalls = 0
        /\ (r.answer # Undefined /\ r.answer.kind = "error"
              /\ r.answer.error = "AbortError") =>
             r.pc = "rejected" /\ r.error = "AbortError"

\* A call made with a URL object and a signal was dispatched with both.
C26_Witness ==
  \E c \in DOMAIN call :
    /\ call[c].pc = "awaitFetch"
    /\ call[c].input.kind = "URL"
    /\ call[c].init.signal = Str(<<"s", "i", "g", "n", "a", "l", "-", "1">>)
    /\ call[c].sent.init.signal = Str(<<"s", "i", "g", "n", "a", "l", "-", "1">>)
    /\ call[c].sent.init.method = Str(<<"P", "O", "S", "T">>)
    /\ call[c].sent.input.kind = "string"

\* The names of headers that are SIGN-IN-WITH-X in some letter case.
SiwxNamesIn(headers) ==
  {k \in DOMAIN headers : LowerCased(k) = LowerCased(SiwxHeaderName)}

\* C27: the headers handed to the transport have exactly one entry whose
\* name is SIGN-IN-WITH-X in some letter case, and its value is the header
\* built for this call, also when the caller's init.headers has a header of
\* that name.
C27_OneSiwxHeader ==
  \A c \in DOMAIN call :
    call[c].pc = "awaitFetch" =>
      /\ Cardinality(SiwxNamesIn(call[c].sent.init.headers)) = 1
      /\ \A k \in SiwxNamesIn(call[c].sent.init.headers) :
           call[c].sent.init.headers[k] = call[c].header.v

\* For a caller who gives no header of that name the headers have the one
\* entry SIGN-IN-WITH-X with the header built for this call.
OneSiwxHeaderUnlessGiven ==
  \A c \in DOMAIN call :
    (call[c].pc = "awaitFetch"
       /\ ValuesOf(NewHeaders(call[c].init.headers),
                   LowerCased(SiwxHeaderName)) = <<>>) =>
      /\ SiwxNamesIn(call[c].sent.init.headers) = {SiwxHeaderName}
      /\ call[c].sent.init.headers[SiwxHeaderName] = call[c].header.v

\* C28: the domain of every freshly built payload is the host component of
\* the uri of the same payload, whatever the request URL and whether
\* siwxDomain is absent, a host name or the empty string.
C28_DomainIsHostOfUri ==
  \A c \in PayloadBuilt :
    LET uri == ParseUrl(call[c].payload.v.uri)
    IN  /\ uri.ok
        /\ call[c].payload.v.domain = uri.host

\* With siwxDomain absent or a host name the domain is the host component
\* of the uri.
DomainIsHostOfUriUnlessEmpty ==
  \A c \in PayloadBuilt :
    options.siwxDomain # Str(<<>>) =>
      LET uri == ParseUrl(call[c].payload.v.uri)
      IN  /\ uri.ok
          /\ call[c].payload.v.domain = uri.host

(***************************************************************************)
(* Properties of the keys of the session cache                             *)
(***************************************************************************)

\* The keys under which the cache holds a payload that the wrapper stored.
StoredKeys ==
  {a \in Addresses : cache[a].kind = "payload" /\ cache[a].sentWith # Undefined}

\* C29: every payload the wrapper has stored is held under the key that is
\* the address field of that payload, also when signer.address changes
\* while calls are suspended.
C29_StoredUnderOwnAddress ==
  \A a \in StoredKeys : cache[a].v.address = a

(***************************************************************************)
(* Properties of the completion of a call                                  *)
(***************************************************************************)

Pending == {"awaitGet", "awaitSign", "awaitSet", "awaitFetch"}

\* The call r rejected with the error that the cache, the signer or the
\* transport rejected with.
RejectedByCache(r) ==
  r.cacheError # "none" /\ r.error = r.cacheError /\ r.fetchCalls = 0

RejectedBySigner(r) ==
  r.signError # "none" /\ r.error = r.signError /\ r.fetchCalls = 0

RejectedByTransport(r) ==
  /\ r.answer # Undefined
  /\ r.answer.kind = "error"
  /\ r.error = r.answer.error
  /\ r.fetchCalls = 1

\* The call r rejected with the TypeError of new URL, before it signed.
RejectedByUrl(r) ==
  /\ r.error = "TypeError"
  /\ r.cacheError = "none" /\ r.signError = "none" /\ r.answer = Undefined
  /\ r.signCalls = 0
  /\ r.fetchCalls = 0

\* The call r resolved with the response of the transport.
ResolvedWithResponse(r) ==
  /\ r.outcome = "response"
  /\ r.error = "none"
  /\ r.answer # Undefined
  /\ r.answer.kind = "response"
  /\ r.status = r.answer.status
  /\ r.fetchCalls = 1

\* A call that leaves its await of sessionCache.set has dispatched, whether
\* set returned true or false, unless set rejected.
StoreStep ==
  \A c \in DOMAIN call :
    (call[c].pc = "awaitSet" /\ call'[c] # call[c]) =>
      IF call'[c].cacheError # "none"
      THEN call'[c].pc = "rejected" /\ call'[c].fetchCalls = 0
      ELSE call'[c].pc = "awaitFetch" /\ call'[c].fetchCalls = 1

====
